---- MODULE Spec2Model ----
(***************************************************************************)
(* Verification model of LCAV/DiffuserCam:                                 *)
(*   - RealFFTConvolve2D (src/lensless/apgd.py), the FFT convolution       *)
(*     operator: specification SpecConv;                                   *)
(*   - Trainer.train / Trainer.train_epoch (src/lensless/recon/utils.py),  *)
(*     the training loop: specification SpecTrain;                         *)
(*   - APGD (src/lensless/apgd.py), the proximal-gradient solver:          *)
(*     specification SpecAPGD.                                             *)
(* Arrays are functions over 0-based index ranges, flat vectors are        *)
(* sequences (1-based), as numpy's ravel() in C order gives them.          *)
(***************************************************************************)
EXTENDS Integers, Sequences, FiniteSets, TLC

VARIABLES
    \* ---- RealFFTConvolve2D ----
    filter_shape,   \* self._filter_shape, <<H, W, C>>
    Hfreq,          \* self._H, held as the padded real canvas whose rfft2 it is
    padded_data,    \* self._padded_data, the reused scratch buffer
    conv_ret,       \* outcome of the last __call__/adjoint: [op, kind, n, arg, val],
                    \* and whether the buffer held an earlier call's nonzero
                    \* argument when the call began (stale)
    \* ---- Trainer ----
    use_mask,       \* self.use_mask (a TrainableMask was given; self.mask is not None)
    skip_NAN,       \* self.skip_NAN
    clip_grad_norm, \* self.clip_grad_norm: None or the maximal norm
    process_cfg,    \* pre/post-process component: [built, delay, freeze, unfreeze]
    params,         \* per parameter group: [present, requires_grad, hooked, in_opt,
                    \*                       value, grad]
    recon_psf,      \* version of the mask parameters self.recon._psf was computed from
    pc,             \* position in Trainer.train / Trainer.train_epoch
    epoch,          \* epoch of Trainer.train's loop
    batch,          \* index of the batch train_epoch's loop is at
    i_cnt,          \* train_epoch's i
    mean_loss,      \* train_epoch's mean_loss, in units of 1 / MeanScale
    loss_v,         \* loss_v.item() of the running step (0 before the first)
    err,            \* the exception that ended train, or None
    step_trace,     \* calls made by the running training step, in order
    step_snap,      \* parameter values and PSF when the running step began
    new_nan,        \* groups whose gradient of the running step's backward has a NaN
    n_forward,      \* number of forward passes (training steps begun)
    n_opt_step,     \* number of optimizer.step calls
    n_update_mask,  \* number of mask.update_mask calls
    applied,        \* number and sum of the losses train_epoch has added to
                    \* mean_loss (the losses of the epoch's applied steps)
    \* APGD (src/lensless/apgd.py)
    apgd_opts,      \* the arguments of APGD(...), what it raised, and the fields
                    \* _diff_penalty, _prox_penalty and _acc it has set
    data,           \* APGD._data, raveled; <<>> before set_data
    image_est,      \* APGD._image_est
    apgd,           \* APGD._apgd: the pycsou solver (made, iter, iterand)
    gen,            \* APGD._gen: the generator of _apgd.iterates(n=max_iter)
    apgd_ret,       \* what the last APGD call returned or raised
    restart,        \* the call that last restarted the iteration
    upd_count,      \* successful updates since the iteration was restarted
    \* Trainer at the epoch boundary (src/lensless/recon/utils.py)
    eval_cfg,       \* Trainer's loss, lpips, save_every and metric_for_best_model
    metrics,        \* Trainer.metrics: the lists, best_epoch, best_eval_score
    epochs_done,    \* number of on_epoch_end calls that have returned
    epoch_scores,   \* what evaluate returned in each of these calls
    saved,          \* the checkpoints each of these calls saved
    metrics_file,   \* metrics.json: <<>> before it is written, else <<the
                    \* dictionary that was dumped>>
    eval_ret,       \* what the last on_epoch_end did: the benchmark's result,
                    \* evaluate's score, or the exception raised
    \* the closed-form solver (src/lensless/recon/tikhonov.py)
    tk_img,         \* the RGB image handed to rgb2bayer; <<>> when there is none
    tk_bayer,       \* the 4-channel Bayer array: rgb2bayer's result, the array
                    \* handed to bayer2rgb, or reconstruction's X_bayer
    tk_rgb,         \* the array bayer2rgb returned; <<>> before
    tk_ret,         \* the last call: [op, normalize, args]
    \* the demo bot (src/scripts/demo/telegram_bot.py)
    BUSY,           \* the global BUSY
    BRIGHTNESS,     \* the global BRIGHTNESS, as the text of its value
    input_exists,   \* the user folder has the input image (INPUT_FP)
    raw_exists,     \* the user folder has a capture (RAW_DATA_FP)
    keyboard,       \* the chat has a message with the brightness keyboard
    hs              \* the handlers: [kind, pc, res, passed, during_job, data];
                    \* res is what check_incoming_message returned, passed that
                    \* it returned None, during_job that another handler's job
                    \* was running when the handler started, data query.data

conv_vars == <<filter_shape, Hfreq, padded_data, conv_ret>>

train_cfg_vars == <<use_mask, skip_NAN, clip_grad_norm, process_cfg>>

train_vars ==
    <<use_mask, skip_NAN, clip_grad_norm, process_cfg, params, recon_psf, pc, epoch, batch,
      i_cnt, mean_loss, loss_v, err, step_trace, step_snap, new_nan, n_forward, n_opt_step,
      n_update_mask, applied>>

apgd_vars == <<apgd_opts, data, image_est, apgd, gen, apgd_ret, restart, upd_count>>

eval_vars == <<eval_cfg, metrics, epochs_done, epoch_scores, saved, metrics_file, eval_ret>>

tk_vars == <<tk_img, tk_bayer, tk_rgb, tk_ret>>

bot_vars == <<BUSY, BRIGHTNESS, input_exists, raw_exists, keyboard, hs>>

vars == <<conv_vars, train_vars, apgd_vars, eval_vars, tk_vars, bot_vars>>

NoneVal == "None"

(***************************************************************************)
(* Bounds of the model.                                                    *)
(***************************************************************************)
\* pixel values of PSFs and vectors
Vals == {0, 1}

\* PSF shapes (H, W, C).  The padded widths are 3 (odd) and 8 (even), the
\* padded heights 1 and 3.  Width 2 is the one width with an odd padded
\* length for which the length-(N-1) inverse real transform has rational
\* values, so that it can be computed exactly (in quarters).
Shapes == {<<1, 2, 1>>, <<2, 2, 1>>, <<1, 4, 1>>, <<1, 2, 2>>}

(***************************************************************************)
(* Helpers on vectors.                                                     *)
(***************************************************************************)
RECURSIVE VecsOfLen(_)
VecsOfLen(n) ==
    IF n = 0 THEN {<<>>}
    ELSE {Append(v, a) : v \in VecsOfLen(n - 1), a \in Vals}

RECURSIVE SumTo(_, _)
\* sum of f[1..n]
SumTo(f, n) == IF n = 0 THEN 0 ELSE f[n] + SumTo(f, n - 1)

\* np.dot of two flat vectors of the same length
Dot(u, v) == SumTo([i \in 1..Len(u) |-> u[i] * v[i]], Len(u))

\* {v}, with the array v computed once: The({F(w) : w \in Once(v)}) is F(v)
Once(v) == {u \in {v} : u = u}

\* the element of a set of one element
The(S) == CHOOSE r \in S : TRUE

RECURSIVE Sum0(_, _)
\* sum of f[0..n-1]
Sum0(f, n) == IF n = 0 THEN 0 ELSE f[n - 1] + Sum0(f, n - 1)

\* the vector of n entries a
ConstVec(n, a) == [i \in 1..n |-> a]

(***************************************************************************)
(* scipy.fftpack.next_fast_len: the smallest 5-smooth number >= n.         *)
(***************************************************************************)
RECURSIVE StripFactor(_, _)
StripFactor(m, p) == IF m % p = 0 THEN StripFactor(m \div p, p) ELSE m

IsFastLen(m) == StripFactor(StripFactor(StripFactor(m, 2), 3), 5) = 1

RECURSIVE NextFastLen(_)
NextFastLen(n) == IF IsFastLen(n) THEN n ELSE NextFastLen(n + 1)

(***************************************************************************)
(* RealFFTConvolve2D.__init__: cropping / padding indices.                 *)
(***************************************************************************)
\* self._padded_shape
PaddedShape(fs) ==
    <<NextFastLen(2 * fs[1] - 1), NextFastLen(2 * fs[2] - 1), fs[3]>>

\* self._start_idx
StartIdx(fs) ==
    <<(PaddedShape(fs)[1] - fs[1]) \div 2, (PaddedShape(fs)[2] - fs[2]) \div 2>>

\* self._end_idx
EndIdx(fs) == <<StartIdx(fs)[1] + fs[1], StartIdx(fs)[2] + fs[2]>>

\* np.zeros(shape) for a 3-D shape
Zeros3(n0, n1, c) == [r \in 0..(n0 - 1) |-> [k \in 0..(n1 - 1) |-> [ch \in 0..(c - 1) |-> 0]]]

\* shape of a 3-D array
Shape3(a) ==
    LET n0 == Cardinality(DOMAIN a)
        n1 == IF n0 = 0 THEN 0 ELSE Cardinality(DOMAIN a[0])
        c  == IF n0 = 0 \/ n1 = 0 THEN 0 ELSE Cardinality(DOMAIN a[0][0])
    IN <<n0, n1, c>>

\* np.prod(self._filter_shape)
Size(fs) == fs[1] * fs[2] * fs[3]

\* np.reshape(x, self._filter_shape) of a flat vector with Size(fs) elements
Reshape(x, fs) ==
    [r \in 0..(fs[1] - 1) |-> [k \in 0..(fs[2] - 1) |-> [ch \in 0..(fs[3] - 1) |->
        x[(r * fs[2] + k) * fs[3] + ch + 1]]]]

\* a reshape that takes any vector long enough and drops the excess
ReshapeOkAtLeast(x, fs) == Len(x) >= Size(fs)

\* np.reshape raises ValueError unless the element counts agree
ReshapeOk(x, fs) == Len(x) = Size(fs)

\* ndarray.ravel() of a 3-D array (C order)
Ravel(a) ==
    LET s == Shape3(a)
    IN [i \in 1..(s[1] * s[2] * s[3]) |->
            a[(i - 1) \div (s[2] * s[3])][((i - 1) \div s[3]) % s[2]][(i - 1) % s[3]]]

\* a slice assignment that adds v to what the buffer holds
AddFootprint(buf, v, fs) ==
    LET s == StartIdx(fs)
        e == EndIdx(fs)
    IN [r \in DOMAIN buf |-> [k \in DOMAIN buf[r] |-> [ch \in DOMAIN buf[r][k] |->
            IF r >= s[1] /\ r < e[1] /\ k >= s[2] /\ k < e[2]
            THEN buf[r][k][ch] + v[r - s[1]][k - s[2]][ch]
            ELSE buf[r][k][ch]]]]

\* buf[start0:end0, start1:end1] = v : the slice assignment of __call__,
\* adjoint and _pad
WriteFootprint(buf, v, fs) ==
    LET s == StartIdx(fs)
        e == EndIdx(fs)
    IN [r \in DOMAIN buf |-> [k \in DOMAIN buf[r] |-> [ch \in DOMAIN buf[r][k] |->
            IF r >= s[1] /\ r < e[1] /\ k >= s[2] /\ k < e[2]
            THEN v[r - s[1]][k - s[2]][ch]
            ELSE buf[r][k][ch]]]]

\* RealFFTConvolve2D._pad
Pad(v, fs) ==
    WriteFootprint(Zeros3(PaddedShape(fs)[1], PaddedShape(fs)[2], fs[3]), v, fs)

\* RealFFTConvolve2D._crop: x[start0:end0, start1:end1] with Python's slice
\* clipping at the array's own extent
Crop(a, fs) ==
    LET s  == StartIdx(fs)
        e  == EndIdx(fs)
        sh == Shape3(a)
        hi0 == IF e[1] < sh[1] THEN e[1] ELSE sh[1]
        hi1 == IF e[2] < sh[2] THEN e[2] ELSE sh[2]
        n0 == IF hi0 > s[1] THEN hi0 - s[1] ELSE 0
        n1 == IF hi1 > s[2] THEN hi1 - s[2] ELSE 0
    IN [r \in 0..(n0 - 1) |-> [k \in 0..(n1 - 1) |-> [ch \in 0..(sh[3] - 1) |->
            a[r + s[1]][k + s[2]][ch]]]]

(***************************************************************************)
(* The frequency domain.  The rfft2 of a real N0 x N1 canvas is held by    *)
(* the canvas it is the transform of (the transform is one-to-one), so     *)
(* that every step below is exact integer arithmetic:                      *)
(*   - the product of two spectra is the spectrum of the circular          *)
(*     convolution, of period N0 x N1, of the two canvases;                *)
(*   - the conjugate of a spectrum is the spectrum of the canvas with      *)
(*     its indices negated modulo N0 and N1;                               *)
(*   - irfft2 without a shape argument returns 2 * (m - 1) samples along   *)
(*     the last transformed axis, m = N1 \div 2 + 1 being the number of    *)
(*     bins rfft2 kept: N1 samples when N1 is even, N1 - 1 when it is odd. *)
(***************************************************************************)
\* fft.rfft2(a, axes=(0, 1))
Rfft2(a) == [n |-> <<Shape3(a)[1], Shape3(a)[2]>>, sig |-> a]

\* np.conj of a spectrum
Conj(S) ==
    [S EXCEPT !.sig =
        [r \in DOMAIN S.sig |-> [k \in DOMAIN S.sig[r] |-> [ch \in DOMAIN S.sig[r][k] |->
            S.sig[(S.n[1] - r) % S.n[1]][(S.n[2] - k) % S.n[2]][ch]]]]]

\* elementwise product of two spectra of the same shape
SpecMul(S, T) ==
    [S EXCEPT !.sig =
        [r \in DOMAIN S.sig |-> [k \in DOMAIN S.sig[r] |-> [ch \in DOMAIN S.sig[r][k] |->
            Sum0([p \in 0..(S.n[1] - 1) |->
                    Sum0([q \in 0..(S.n[2] - 1) |->
                            S.sig[p][q][ch]
                            * T.sig[(r - p) % S.n[1]][(k - q) % S.n[2]][ch]],
                         S.n[2])],
                 S.n[1])]]]]

\* number of samples irfft2 returns along the last transformed axis
IrfftLen(n1) == 2 * ((n1 \div 2 + 1) - 1)

\* the values irfft2 returns are multiples of 1 / IrfftDen
IrfftDen(n1) == IF IrfftLen(n1) = n1 THEN 1 ELSE 4

\* weight of sample t of a period-3 signal in sample k of the length-2
\* inverse real transform of its first two bins, in quarters:
\* 2 + (-1)^k * 2 * cos(2 pi t / 3)
Kernel32(k, t) ==
    LET c2 == IF t % 3 = 0 THEN 2 ELSE -1
    IN IF k % 2 = 0 THEN 2 + c2 ELSE 2 - c2

\* fft.irfft2(S, axes=(0, 1)), in units of 1 / IrfftDen(N1).  The odd case
\* is the one of N1 = 3 (output length 2).
Irfft2(S) ==
    IF IrfftLen(S.n[2]) = S.n[2]
    THEN S.sig
    ELSE [r \in DOMAIN S.sig |-> [k \in 0..(IrfftLen(S.n[2]) - 1) |->
            [ch \in DOMAIN S.sig[r][0] |->
                Sum0([t \in 0..(S.n[2] - 1) |-> S.sig[r][t][ch] * Kernel32(k, t)],
                     S.n[2])]]]

\* fft.ifftshift(a, axes=(0, 1)): roll by -(n \div 2) along both axes
IfftShift(a) ==
    LET sh == Shape3(a)
    IN [r \in DOMAIN a |-> [k \in DOMAIN a[r] |-> [ch \in DOMAIN a[r][k] |->
            a[(r + sh[1] \div 2) % sh[1]][(k + sh[2] \div 2) % sh[2]][ch]]]]

\* the value __call__ returns once x is in the buffer (lines 84-90),
\* in units of 1 / OutDen(fs)
CallOut(Hf, buf, fs) == Ravel(Crop(IfftShift(Irfft2(SpecMul(Rfft2(buf), Hf))), fs))

\* the value adjoint returns once y is in the buffer (lines 96-102)
AdjointOut(Hf, buf, fs) ==
    Ravel(Crop(IfftShift(Irfft2(SpecMul(Rfft2(buf), Conj(Hf)))), fs))

\* denominator of the values CallOut and AdjointOut return
OutDen(fs) == IrfftDen(PaddedShape(fs)[2])

(***************************************************************************)
(* RealFFTConvolve2D: construction and the two operations.                 *)
(***************************************************************************)
ConvNoRet ==
    [op |-> "none", kind |-> "none", n |-> 0, arg |-> <<>>, val |-> <<>>, stale |-> FALSE]

\* the buffer holds something else than zeros
Stale(buf) == \E r \in DOMAIN buf : \E k \in DOMAIN buf[r] : \E ch \in DOMAIN buf[r][k] :
                buf[r][k][ch] # 0

\* RealFFTConvolve2D.__init__(filter)
ConvInit ==
    \E fs \in Shapes : \E h \in VecsOfLen(Size(fs)) :
        /\ filter_shape = fs
        /\ Hfreq = Rfft2(Pad(Reshape(h, fs), fs))
        /\ padded_data = Zeros3(PaddedShape(fs)[1], PaddedShape(fs)[2], fs[3])
        /\ conv_ret = ConvNoRet

\* the inputs handed to __call__ and adjoint: every vector of the PSF's
\* element count, and constant vectors of one element less or more
ConvInputs ==
    VecsOfLen(Size(filter_shape))
    \cup {ConstVec(n, a) : n \in {Size(filter_shape) - 1, Size(filter_shape) + 1}, a \in Vals}

\* RealFFTConvolve2D.__call__(x)
Call(x) ==
    IF ReshapeOk(x, filter_shape)
    THEN /\ padded_data' = WriteFootprint(padded_data, Reshape(x, filter_shape), filter_shape)
         /\ conv_ret' = [op |-> "call", kind |-> "value", n |-> Len(x), arg |-> x,
                         val |-> CallOut(Hfreq, padded_data', filter_shape),
                         stale |-> Stale(padded_data)]
         /\ UNCHANGED <<filter_shape, Hfreq>>
    ELSE /\ conv_ret' = [op |-> "call", kind |-> "error", n |-> Len(x), arg |-> <<>>,
                         val |-> <<>>, stale |-> Stale(padded_data)]
         /\ UNCHANGED <<filter_shape, Hfreq, padded_data>>

\* RealFFTConvolve2D.adjoint(y)
Adjoint(y) ==
    IF ReshapeOk(y, filter_shape)
    THEN /\ padded_data' = WriteFootprint(padded_data, Reshape(y, filter_shape), filter_shape)
         /\ conv_ret' = [op |-> "adjoint", kind |-> "value", n |-> Len(y), arg |-> y,
                         val |-> AdjointOut(Hfreq, padded_data', filter_shape),
                         stale |-> Stale(padded_data)]
         /\ UNCHANGED <<filter_shape, Hfreq>>
    ELSE /\ conv_ret' = [op |-> "adjoint", kind |-> "error", n |-> Len(y), arg |-> <<>>,
                         val |-> <<>>, stale |-> Stale(padded_data)]
         /\ UNCHANGED <<filter_shape, Hfreq, padded_data>>

ConvCall == \E x \in ConvInputs : Call(x)

ConvAdjoint == \E y \in ConvInputs : Adjoint(y)

\* no operator is built
ConvIdle ==
    /\ filter_shape = NoneVal
    /\ Hfreq = NoneVal
    /\ padded_data = NoneVal
    /\ conv_ret = ConvNoRet

(***************************************************************************)
(* Trainer (src/lensless/recon/utils.py).                                  *)
(*                                                                         *)
(* The trainable parameters are held in groups: "unrolled" (the unrolled   *)
(* solver's own coefficients), "pre" and "post" (the parameters of the     *)
(* pre- and post-processing components, once part of the reconstruction)   *)
(* and "mask" (the parameters of the TrainableMask, which has an           *)
(* optimizer of its own).  A group's value is the number of optimizer      *)
(* updates applied to it, or "nan"; its gradient is None, "finite" or      *)
(* "nan".                                                                  *)
(***************************************************************************)
\* n_epoch of Trainer.train
MaxEpochs == 2
\* number of batches the data loader yields per epoch
NumBatches == 2

\* the values loss_v.item() takes when every parameter is finite
LossVals == {1, 3}

\* a float that is NaN (torch.isnan); the finite floats of the model are
\* not negative
NaN == -1

\* the gradient clipping threshold given as clip_grad
ClipGradVals == {NoneVal, "1.0"}

\* an epoch option (delay, freeze, unfreeze) that is None: no epoch equals it
NoEpoch == -1

Components == {"pre", "post"}
ReconGroups == {"unrolled"} \cup Components
Groups == ReconGroups \cup {"mask"}

RECURSIVE Factorial(_)
Factorial(n) == IF n <= 1 THEN 1 ELSE n * Factorial(n - 1)

\* mean_loss is held as an integer multiple of 1 / MeanScale; every
\* division by i <= NumBatches of train_epoch is then exact
MeanScale == Factorial(NumBatches)

\* the component is not used
CfgAbsent == [built |-> FALSE, delay |-> NoEpoch, freeze |-> NoEpoch, unfreeze |-> NoEpoch]

\* the ways a pre/post-process component is configured: not used; part of
\* the reconstruction handed to the Trainer; handed to the Trainer
\* (pre_process, pre_process_delay) and inserted at epoch delay; part of the
\* reconstruction, frozen at epoch 0 and unfrozen at the last epoch
ProcessCfgs ==
    {CfgAbsent,
     [built |-> TRUE, delay |-> NoEpoch, freeze |-> NoEpoch, unfreeze |-> NoEpoch],
     [built |-> TRUE, delay |-> NoEpoch, freeze |-> 0, unfreeze |-> MaxEpochs - 1]}
    \cup {[built |-> FALSE, delay |-> d, freeze |-> NoEpoch, unfreeze |-> NoEpoch] :
            d \in 0..(MaxEpochs - 1)}

\* a backward pass whose gradient replaces param.grad, as it would after a
\* zero_grad
Overwrite(old, new) == new

\* torch accumulates a backward pass's gradient into param.grad
Accumulate(old, new) == IF old = "nan" \/ new = "nan" THEN "nan" ELSE "finite"

\* Trainer.__init__ (lines 394-399, 426-429, 452-471) on a reconstruction
\* whose components are built as cfg says
TrainerInit ==
    /\ use_mask \in BOOLEAN
    /\ skip_NAN \in BOOLEAN
    /\ clip_grad_norm \in ClipGradVals
    /\ process_cfg \in [Components -> ProcessCfgs]
    \* at most one of the two components is used
    /\ \E c \in Components : process_cfg[c] = CfgAbsent
    /\ params =
         [g \in Groups |->
            LET there == IF g = "mask" THEN use_mask
                         ELSE IF g = "unrolled" THEN TRUE
                         ELSE process_cfg[g].built
            IN [present |-> there,
                requires_grad |-> there,
                \* lines 453-471: detect_nan on recon.parameters()
                hooked |-> there /\ g # "mask" /\ ~skip_NAN,
                \* lines 480-483: the optimizer holds recon.parameters()
                in_opt |-> there /\ g # "mask",
                value |-> 0,
                grad |-> NoneVal]]
    /\ recon_psf = 0
    /\ pc = "epoch_start"
    /\ epoch = 0
    /\ batch = 0
    /\ i_cnt = 1
    /\ mean_loss = 0
    /\ loss_v = 0
    /\ err = NoneVal
    /\ step_trace = <<>>
    /\ step_snap = [value |-> [g \in Groups |-> 0], psf |-> 0]
    /\ new_nan = {}
    /\ n_forward = 0
    /\ n_opt_step = 0
    /\ n_update_mask = 0
    /\ applied = [n |-> 0, sum |-> 0]

\* no Trainer is built
TrainIdle ==
    /\ use_mask = FALSE
    /\ skip_NAN = FALSE
    /\ clip_grad_norm = NoneVal
    /\ process_cfg = [c \in Components |-> CfgAbsent]
    /\ params = [g \in Groups |-> [present |-> FALSE, requires_grad |-> FALSE, hooked |-> FALSE,
                                    in_opt |-> FALSE, value |-> 0, grad |-> NoneVal]]
    /\ recon_psf = 0
    /\ pc = "idle"
    /\ epoch = 0
    /\ batch = 0
    /\ i_cnt = 1
    /\ mean_loss = 0
    /\ loss_v = 0
    /\ err = NoneVal
    /\ step_trace = <<>>
    /\ step_snap = [value |-> [g \in Groups |-> 0], psf |-> 0]
    /\ new_nan = {}
    /\ n_forward = 0
    /\ n_opt_step = 0
    /\ n_update_mask = 0
    /\ applied = [n |-> 0, sum |-> 0]

\* what a training step leaves alone unless it says otherwise
TrainFrame(changed) ==
    /\ UNCHANGED train_cfg_vars
    /\ IF "params" \in changed THEN TRUE ELSE UNCHANGED params
    /\ IF "recon_psf" \in changed THEN TRUE ELSE UNCHANGED recon_psf
    /\ IF "epoch" \in changed THEN TRUE ELSE UNCHANGED epoch
    /\ IF "batch" \in changed THEN TRUE ELSE UNCHANGED batch
    /\ IF "i_cnt" \in changed THEN TRUE ELSE UNCHANGED i_cnt
    /\ IF "mean_loss" \in changed THEN TRUE ELSE UNCHANGED mean_loss
    /\ IF "loss_v" \in changed THEN TRUE ELSE UNCHANGED loss_v
    /\ IF "step_trace" \in changed THEN TRUE ELSE UNCHANGED step_trace
    /\ IF "step_snap" \in changed THEN TRUE ELSE UNCHANGED step_snap
    /\ IF "new_nan" \in changed THEN TRUE ELSE UNCHANGED new_nan
    /\ IF "n_forward" \in changed THEN TRUE ELSE UNCHANGED n_forward
    /\ IF "n_opt_step" \in changed THEN TRUE ELSE UNCHANGED n_opt_step
    /\ IF "n_update_mask" \in changed THEN TRUE ELSE UNCHANGED n_update_mask
    /\ IF "applied" \in changed THEN TRUE ELSE UNCHANGED applied

\* an exception leaves train_epoch and train
Raise(e) ==
    /\ pc' = "raised"
    /\ err' = e

\* the parameters of a component when Trainer.train reaches epoch e:
\* set_pre_process / set_post_process at the delay epoch, then
\* freeze_*_process, then unfreeze_*_process (lines 770-795)
AtEpoch(p, cfg, e) ==
    LET ins == IF e = cfg.delay
               THEN [p EXCEPT !.present = TRUE, !.requires_grad = TRUE,
                              !.value = 0, !.grad = NoneVal]
               ELSE p
        frz == IF e = cfg.freeze THEN [ins EXCEPT !.requires_grad = FALSE] ELSE ins
    IN IF e = cfg.unfreeze THEN [frz EXCEPT !.requires_grad = TRUE] ELSE frz

\* Trainer.train, the top of the epoch loop (lines 768-805), and the first
\* lines of train_epoch (lines 533-535)
EpochStart ==
    /\ pc = "epoch_start"
    /\ epoch < MaxEpochs
    /\ params' = [g \in Groups |->
                    IF g \in Components THEN AtEpoch(params[g], process_cfg[g], epoch)
                    ELSE params[g]]
    /\ mean_loss' = 0
    /\ i_cnt' = 1
    /\ batch' = 0
    /\ applied' = [n |-> 0, sum |-> 0]
    /\ pc' = "forward"
    /\ UNCHANGED err
    /\ TrainFrame({"params", "mean_loss", "i_cnt", "batch", "applied"})

\* some value of the reconstruction, of the mask or of the PSF is NaN
AnyNaNValue ==
    \/ \E g \in Groups : params[g].present /\ params[g].value = NaN
    \/ recon_psf = NaN

\* train_epoch, lines 536-593: the forward pass recon.batch_call(X), which
\* reads the reconstruction's PSF, and the loss
Forward ==
    /\ pc = "forward"
    /\ batch < NumBatches
    /\ \E l \in LossVals : loss_v' = IF AnyNaNValue THEN NaN ELSE l
    /\ step_trace' = <<"forward">>
    /\ step_snap' = [value |-> [g \in Groups |-> params[g].value], psf |-> recon_psf]
    /\ new_nan' = {}
    /\ n_forward' = n_forward + 1
    /\ pc' = "backward"
    /\ UNCHANGED err
    /\ TrainFrame({"loss_v", "step_trace", "step_snap", "new_nan", "n_forward"})

\* the groups loss_v.backward() computes a gradient for
GradGroups == {g \in Groups : params[g].present /\ params[g].requires_grad}

\* the gradients after a backward pass that computed ng for the groups in done
AfterBackward(ng, done) ==
    [g \in Groups |->
        IF g \in done
        THEN [params[g] EXCEPT !.grad = IF params[g].grad = NoneVal THEN ng[g]
                                        ELSE Accumulate(params[g].grad, ng[g])]
        ELSE params[g]]

\* train_epoch, line 594: loss_v.backward().  The detect_nan hook of a
\* hooked parameter raises ValueError when its gradient has a NaN; the
\* gradients accumulated before the hook ran stay.
Backward ==
    /\ pc = "backward"
    /\ \E ng \in [GradGroups -> {"finite", "nan"}] :
        /\ loss_v = NaN => \A g \in GradGroups : ng[g] = "nan"
        /\ new_nan' = {g \in GradGroups : ng[g] = "nan"}
        /\ IF \E g \in GradGroups : params[g].hooked /\ ng[g] = "nan"
           THEN /\ \E done \in SUBSET GradGroups : params' = AfterBackward(ng, done)
                /\ UNCHANGED step_trace
                /\ Raise("ValueError")
           ELSE /\ params' = AfterBackward(ng, GradGroups)
                /\ step_trace' = Append(step_trace, "backward")
                /\ pc' = "clip"
                /\ UNCHANGED err
    /\ TrainFrame({"params", "new_nan", "step_trace"})

\* torch.nn.utils.clip_grad_norm_ over the groups gs: a NaN in one gradient
\* makes the total norm, and with it every clipped gradient, NaN
ClipGroup(ps, gs) ==
    LET with == {g \in gs : ps[g].present /\ ps[g].grad # NoneVal}
        bad  == \E g \in with : ps[g].grad = "nan"
    IN [g \in Groups |->
            IF g \in with /\ bad THEN [ps[g] EXCEPT !.grad = "nan"] ELSE ps[g]]

\* train_epoch, lines 596-603: the check that the mask parameters have a
\* gradient, and the gradient clipping, which reads self.mask.parameters()
ClipGrad ==
    /\ pc = "clip"
    /\ IF use_mask /\ params["mask"].grad = NoneVal
       THEN /\ Raise("AssertionError")
            /\ UNCHANGED <<params, step_trace>>
       ELSE IF clip_grad_norm = NoneVal
       THEN /\ pc' = "nan_check"
            /\ UNCHANGED <<params, step_trace, err>>
       ELSE IF ~use_mask
       THEN \* self.mask is None: None has no attribute parameters
            /\ Raise("AttributeError")
            /\ UNCHANGED <<params, step_trace>>
       ELSE /\ params' = ClipGroup(ClipGroup(params, {"mask"}), ReconGroups)
            /\ step_trace' = Append(step_trace, "clip")
            /\ pc' = "nan_check"
            /\ UNCHANGED err
    /\ TrainFrame({"params", "step_trace"})

\* recon_is_NAN, lines 609-612
ReconIsNaN == \E g \in ReconGroups : params[g].present /\ params[g].grad = "nan"

\* mask_is_NAN, lines 613-616
MaskIsNaN == params["mask"].present /\ params["mask"].grad = "nan"

\* train_epoch, lines 605-625: with skip_NAN, a step whose gradients have a
\* NaN is skipped (i += 1; continue); the loop over self.mask.parameters()
\* is not guarded by use_mask
NanCheck ==
    /\ pc = "nan_check"
    /\ IF ~skip_NAN
       THEN /\ pc' = "opt_step"
            /\ UNCHANGED <<i_cnt, batch, err>>
       ELSE IF ~use_mask
       THEN /\ Raise("AttributeError")
            /\ UNCHANGED <<i_cnt, batch>>
       ELSE IF ReconIsNaN \/ MaskIsNaN
       THEN /\ i_cnt' = i_cnt + 1
            /\ batch' = batch + 1
            /\ pc' = "forward"
            /\ UNCHANGED err
       ELSE /\ pc' = "opt_step"
            /\ UNCHANGED <<i_cnt, batch, err>>
    /\ TrainFrame({"i_cnt", "batch"})

\* the value of a parameter after an optimizer step with gradient grad
Stepped(p) ==
    IF p.grad = NoneVal THEN p
    ELSE IF p.grad = "nan" \/ p.value = NaN THEN [p EXCEPT !.value = NaN]
    ELSE [p EXCEPT !.value = p.value + 1]

\* train_epoch, line 627: self.optimizer.step() updates the parameters the
\* optimizer was built with (set_optimizer, lines 480-483) that have a
\* gradient
OptimizerStep ==
    /\ pc = "opt_step"
    /\ params' = [g \in Groups |-> IF params[g].in_opt THEN Stepped(params[g]) ELSE params[g]]
    /\ n_opt_step' = n_opt_step + 1
    /\ step_trace' = Append(step_trace, "optimizer.step")
    /\ pc' = "zero_grad"
    /\ UNCHANGED err
    /\ TrainFrame({"params", "n_opt_step", "step_trace"})

\* train_epoch, line 630: self.optimizer.zero_grad(set_to_none=True)
ZeroGrad ==
    /\ pc = "zero_grad"
    /\ params' = [g \in Groups |->
                    IF params[g].in_opt THEN [params[g] EXCEPT !.grad = NoneVal]
                    ELSE params[g]]
    /\ pc' = "update_mask"
    /\ UNCHANGED err
    /\ TrainFrame({"params"})

\* mask.update_mask(): the step of the mask's own optimizer on the mask
\* parameters, their gradients set to zero, and the PSF computed anew
MaskUpdate(p) == [Stepped(p) EXCEPT !.grad = NoneVal]

\* the PSF that ignores the mask
SetPsfInitial(p) == 0

\* self.recon._set_psf(self.mask._psf), line 637: the PSF of the mask, named
\* by the version of the mask parameters it was computed from
SetPsf(p) == p.value

\* train_epoch, lines 632-637: mask.update_mask() (the step of the mask's
\* own optimizer, the projection and the new PSF), then the data set's and
\* the reconstruction's PSF are set from the mask
UpdateMask ==
    /\ pc = "update_mask"
    /\ IF use_mask
       THEN /\ params' = [params EXCEPT !["mask"] = MaskUpdate(params["mask"])]
            /\ recon_psf' = SetPsf(params'["mask"])
            /\ n_update_mask' = n_update_mask + 1
            /\ step_trace' = Append(step_trace, "mask.update_mask")
       ELSE UNCHANGED <<params, recon_psf, n_update_mask, step_trace>>
    /\ pc' = "book"
    /\ UNCHANGED err
    /\ TrainFrame({"params", "recon_psf", "n_update_mask", "step_trace"})

\* mean_loss += (loss_v.item() - mean_loss) * (1 / i), in units of
\* 1 / MeanScale
MeanUpdate(m, l, i) ==
    IF m = NaN \/ l = NaN THEN NaN ELSE m + (MeanScale * l - m) \div i

\* the sum of floats, one of which may be NaN
SumWith(a, l) == IF a = NaN \/ l = NaN THEN NaN ELSE a + l

\* train_epoch, lines 639-641
Bookkeep ==
    /\ pc = "book"
    /\ mean_loss' = MeanUpdate(mean_loss, loss_v, i_cnt)
    /\ i_cnt' = i_cnt + 1
    /\ batch' = batch + 1
    /\ applied' = [n |-> applied.n + 1, sum |-> SumWith(applied.sum, loss_v)]
    /\ step_trace' = Append(step_trace, "mean_loss")
    /\ pc' = "forward"
    /\ UNCHANGED err
    /\ TrainFrame({"mean_loss", "i_cnt", "batch", "step_trace", "applied"})

\* train_epoch returns mean_loss (lines 643-645); Trainer.train goes on to
\* the next epoch (lines 805-808).  What on_epoch_end does with the mean
\* loss is OnEpochEnd: it writes Trainer.metrics only, which no training
\* step reads.
EpochEnd ==
    /\ pc = "forward"
    /\ batch = NumBatches
    /\ epoch' = epoch + 1
    /\ pc' = "epoch_start"
    /\ UNCHANGED err
    /\ TrainFrame({"epoch"})

(***************************************************************************)
(* Trainer at the epoch boundary: Trainer.evaluate and Trainer.on_epoch_end *)
(* (src/lensless/recon/utils.py).  Trainer.train calls                     *)
(* on_epoch_end(mean_loss, save_pt, epoch + 1) with the mean loss that     *)
(* train_epoch returned; on_epoch_end reads and writes Trainer.metrics and *)
(* saves checkpoints, and nothing a training step reads.  Metric values    *)
(* are integers (fixed point).                                             *)
(***************************************************************************)
\* the list-valued keys of Trainer.metrics, lines 432-439
ListKeys ==
    {"LOSS", "MSE", "MAE", "LPIPS_Vgg", "LPIPS_Alex", "PSNR", "SSIM", "ReconstructionError"}

\* the keys a benchmark result can have
BenchKeys == ListKeys \ {"LOSS"}

\* np.inf, above every score of the model
Inf == 1000

\* loss, lpips, save_every and metric_for_best_model of Trainer(...);
\* l1_mask is None
LossKinds == {"l1", "l2"}
LpipsVals == {NoneVal, "1.0"}
SaveEveryVals == {NoEpoch, 2}
BestMetrics == {NoneVal, "PSNR", "SSIM", "MAE"}

\* the weight self.lpips
LpipsWeight(l) == IF l = "1.0" THEN 1 ELSE 0

\* the values the benchmark measures on the test set: a poor, a middling
\* and a good reconstruction (SSIM lies in [-1, 1], PSNR of normalised
\* images is positive)
BenchValues ==
    {[MSE |-> 6, MAE |-> 2, LPIPS_Vgg |-> 3, LPIPS_Alex |-> 3, PSNR |-> 2, SSIM |-> -2,
      ReconstructionError |-> 5],
     [MSE |-> 4, MAE |-> 3, LPIPS_Vgg |-> 1, LPIPS_Alex |-> 2, PSNR |-> 4, SSIM |-> -1,
      ReconstructionError |-> 4],
     [MSE |-> 1, MAE |-> 1, LPIPS_Vgg |-> 1, LPIPS_Alex |-> 1, PSNR |-> 9, SSIM |-> 3,
      ReconstructionError |-> 2]}

\* the key sets of the dictionary the benchmark returns: every metric, no
\* reconstruction error, no LPIPS
BenchKeySets ==
    {BenchKeys, BenchKeys \ {"ReconstructionError"}, BenchKeys \ {"LPIPS_Vgg", "LPIPS_Alex"}}

\* Trainer.__init__, lines 431-449
MetricsInit ==
    /\ eval_cfg \in [loss : LossKinds, lpips : LpipsVals, save_every : SaveEveryVals,
                     metric_for_best_model : BestMetrics]
    /\ metrics = [lists |-> [k \in ListKeys |-> <<>>],
                  best_epoch |-> 0,
                  best_eval_score |->
                      IF eval_cfg.metric_for_best_model \in {"PSNR", "SSIM"} THEN 0 ELSE Inf]
    /\ epochs_done = 0
    /\ epoch_scores = <<>>
    /\ saved = <<>>
    /\ metrics_file = <<>>
    /\ eval_ret = [kind |-> "none", keys |-> {}, current_metrics |-> <<>>, score |-> 0]

\* no Trainer is built
EvalIdle ==
    /\ eval_cfg = [loss |-> "l2", lpips |-> NoneVal, save_every |-> NoEpoch,
                   metric_for_best_model |-> NoneVal]
    /\ metrics = [lists |-> [k \in ListKeys |-> <<>>], best_epoch |-> 0, best_eval_score |-> Inf]
    /\ epochs_done = 0
    /\ epoch_scores = <<>>
    /\ saved = <<>>
    /\ metrics_file = <<>>
    /\ eval_ret = [kind |-> "idle", keys |-> {}, current_metrics |-> <<>>, score |-> 0]

\* evaluate, lines 685-688: the mean loss is appended to "LOSS", and each
\* value of the benchmark's dictionary to the list of its key
AppendMetrics(lists, ml, cm, keys) ==
    [k \in ListKeys |->
        IF k = "LOSS" THEN Append(lists[k], ml)
        ELSE IF k \in keys THEN Append(lists[k], cm[k])
        ELSE lists[k]]

\* the keys of current_metrics that evaluate reads for the score, lines
\* 695-707
KeysRead(cfg) ==
    IF cfg.metric_for_best_model = NoneVal
    THEN {"MSE"} \cup (IF cfg.lpips # NoneVal THEN {"LPIPS_Vgg"} ELSE {})
    ELSE {cfg.metric_for_best_model}

\* the score evaluate returns, lines 695-707 (with no l1_mask)
EvalScore(cfg, cm) ==
    IF cfg.metric_for_best_model = NoneVal
    THEN cm["MSE"] + (IF cfg.lpips # NoneVal THEN LpipsWeight(cfg.lpips) * cm["LPIPS_Vgg"] ELSE 0)
    ELSE cm[cfg.metric_for_best_model]

\* on_epoch_end, lines 731-741: the score is a new best
NewBest(cfg, score, best) ==
    IF cfg.metric_for_best_model \in {"PSNR", "SSIM"} THEN score > best ELSE score < best

\* on_epoch_end, lines 743-748: the checkpoints saved
Checkpoints(cfg, new_best, ep) ==
    (IF new_best THEN {"BEST"} ELSE {})
    \cup (IF cfg.save_every # NoEpoch /\ ep % cfg.save_every = 0 THEN {"epoch"} ELSE {})

\* Trainer.on_epoch_end(mean_loss, save_pt, epoch) with all of
\* Trainer.evaluate, lines 647-748, for the benchmark result cm with the
\* keys keys
EpochBoundary(ml, cm, keys) ==
    LET ep == epochs_done + 1
        lists == AppendMetrics(metrics.lists, ml, cm, keys)
        score == EvalScore(eval_cfg, cm)
        new_best == NewBest(eval_cfg, score, metrics.best_eval_score)
    IN  \* evaluate, lines 690-693: save_pt is never None (line 724)
        /\ metrics_file' = <<[metrics EXCEPT !.lists = lists]>>
        /\ IF KeysRead(eval_cfg) \subseteq keys
           THEN /\ metrics' = [lists |-> lists,
                               best_epoch |-> IF new_best THEN ep ELSE metrics.best_epoch,
                               best_eval_score |->
                                   IF new_best THEN score ELSE metrics.best_eval_score]
                /\ epochs_done' = ep
                /\ epoch_scores' = Append(epoch_scores, score)
                /\ saved' = Append(saved, Checkpoints(eval_cfg, new_best, ep))
                /\ eval_ret' = [kind |-> "value", keys |-> keys, current_metrics |-> cm,
                                score |-> score]
           ELSE /\ metrics' = [metrics EXCEPT !.lists = lists]
                /\ eval_ret' = [kind |-> "KeyError", keys |-> keys, current_metrics |-> cm,
                                score |-> 0]
                /\ UNCHANGED <<epochs_done, epoch_scores, saved>>

\* the epoch boundary of Trainer.train, lines 805-807, for every mean loss
\* and every benchmark result; an exception ends train
OnEpochEnd ==
    /\ eval_ret.kind \in {"none", "value"}
    /\ epochs_done < MaxEpochs
    /\ \E ml \in LossVals, cm \in BenchValues, keys \in BenchKeySets :
          EpochBoundary(ml, cm, keys)
    /\ UNCHANGED eval_cfg

(***************************************************************************)
(* APGD (src/lensless/apgd.py), the wrapper of pycsou's accelerated        *)
(* proximal gradient descent.  Images are raveled sequences of integers    *)
(* (fixed point).                                                          *)
(***************************************************************************)
\* max_iter given at construction
MaxIter == 2

\* psf.shape and the PSF given at construction
ApgdShape == <<1, 4, 1>>
ApgdPsf == <<0, 1, 1, 0>>

\* the measurements handed to set_data
Measurements == {<<64, 0, 0, 0>>, <<0, 64, 64, 0>>}

\* prox_penalty and acceleration
ProxPenalties == {NoneVal, "nonneg", "l1"}
Accelerations == {NoneVal, "BT", "CD"}

\* the diff_penalty arguments: None, "l2", a string that names no penalty,
\* a class that is no differentiable functional (it has no jacobianT)
DiffPenaltyArgs == {NoneVal, "l2", "unknown", "not_differentiable"}

\* the prox_penalty arguments: None, "nonneg", "l1", a string that names no
\* penalty, a functional whose constructor raises ValueError
ProxPenaltyArgs == ProxPenalties \cup {"unknown", "unbuildable"}

\* the acceleration arguments: None, "BT", "CD", another string
AccelerationArgs == Accelerations \cup {"unknown"}

\* what APGD.__init__ raises, lines 165-185: the assert of line 169 fails
\* for a diff_penalty without jacobianT; line 181 calls prox_penalty(dim=...),
\* which is a TypeError for a string, and the ValueError of a functional
\* that cannot be built is caught and printed (lines 182-183)
InitRaises(dp, pp) ==
    IF dp \notin {NoneVal, "l2"} THEN "AssertionError"
    ELSE IF pp = "unknown" THEN "TypeError"
    ELSE NoneVal

\* self._prox_penalty after lines 174-185: not assigned ("unset") when the
\* ValueError was caught
ProxField(pp) == IF pp = "unbuildable" THEN "unset" ELSE pp

\* whether pycsou's APGD takes the acceleration it is given: it takes None,
\* "BT" and "CD"; for any other value it either always raises or always
\* takes it
PycAccepts(a) == IF a \in Accelerations THEN {TRUE} ELSE BOOLEAN

\* the APGD object, or what its construction raised; pyc is whether pycsou
\* will take the acceleration
Construct(dp, pp, a, pyc) ==
    [arg_diff |-> dp, arg_prox |-> pp, arg_acc |-> a, pyc_accepts |-> pyc,
     raised |-> InitRaises(dp, pp),
     diff |-> IF InitRaises(dp, pp) = NoneVal THEN dp ELSE NoneVal,
     prox |-> IF InitRaises(dp, pp) = NoneVal THEN ProxField(pp) ELSE "unset",
     acc |-> IF InitRaises(dp, pp) = NoneVal THEN a ELSE NoneVal]

\* self._H = RealFFTConvolve2D(self._psf), lines 161-162, and its
\* Lipschitz constant: the squared gain of the convolution with ApgdPsf is
\* at most (0 + 1 + 1 + 0)^2
ApgdH == Rfft2(Pad(Reshape(ApgdPsf, ApgdShape), ApgdShape))
LipschitzCst == 4

ApgdBuf(x) ==
    WriteFootprint(Zeros3(PaddedShape(ApgdShape)[1], PaddedShape(ApgdShape)[2], ApgdShape[3]),
                   Reshape(x, ApgdShape), ApgdShape)

\* self._H(x) and self._H.adjoint(y)
HCall(x) == CallOut(ApgdH, ApgdBuf(x), ApgdShape)
HAdjoint(y) == AdjointOut(ApgdH, ApgdBuf(y), ApgdShape)

ZeroVec(n) == [i \in 1..n |-> 0]
VecSub(u, v) == [i \in 1..Len(u) |-> u[i] - v[i]]
VecAdd(u, v) == [i \in 1..Len(u) |-> u[i] + v[i]]

\* the gradient of the differentiable penalty (lines 166-167, 211-212):
\* diff_lambda * SquaredL2Norm has the gradient 2 * 0.001 * z
DiffGrad(pen, z) ==
    [i \in 1..Len(z) |-> IF pen = "l2" THEN (2 * z[i]) \div 1000 ELSE 0]

\* the gradient of F = (1/2) * SquaredL2Loss(data) * H + diff_penalty at z
\* (lines 209-212)
GradF(z, d, pen) ==
    The({The({VecAdd(HAdjoint(r), DiffGrad(pen, z)) : r \in Once(VecSub(y, d))})
            : y \in Once(HCall(z))})

\* the proximal operator of G (lines 214-218): the projection on the
\* non-negative orthant, the soft threshold of the L1 norm (one unit), or
\* the identity when G is None
Prox(pen, y) ==
    [i \in 1..Len(y) |->
        IF pen = "nonneg" THEN (IF y[i] < 0 THEN 0 ELSE y[i])
        ELSE IF pen = "l1" THEN (IF y[i] > 1 THEN y[i] - 1
                                 ELSE IF y[i] < -1 THEN y[i] + 1 ELSE 0)
        ELSE y[i]]

\* the momentum coefficient of iteration k as <<numerator, denominator>>:
\* none without acceleration, Beck-Teboulle, Chambolle-Dossal (d = 75)
Momentum(acc, k) ==
    IF acc = "BT" THEN <<k, k + 3>>
    ELSE IF acc = "CD" THEN <<k, k + 76>>
    ELSE <<0, 1>>

\* pycsou APGD.init_iterand: the zero iterand, no momentum
InitIterand == [iterand |-> ZeroVec(Size(ApgdShape)), past_aux |-> ZeroVec(Size(ApgdShape))]

\* pycsou APGD.update_iterand: the gradient step at the extrapolated point,
\* the proximal operator, the momentum extrapolation
UpdateIterand(it, k, d, opts) ==
    LET a == Momentum(opts.acc, k)
        Step(g) == Prox(opts.prox,
                        [i \in 1..Len(g) |-> it.past_aux[i] - (g[i] \div LipschitzCst)])
        Extrapolate(x) ==
            [iterand |-> x,
             past_aux |-> [i \in 1..Len(x) |->
                             x[i] + ((a[1] * (x[i] - it.iterand[i])) \div a[2])]]
    IN The({The({Extrapolate(x) : x \in Once(Step(g))}) : g \in Once(GradF(it.past_aux, d, opts.diff))})

\* self._apgd = None, line 153
NoApgd == [made |-> FALSE, iter |-> 0, it |-> InitIterand]

\* APGD_pyc(dim, F, G, acceleration), line 221, and pycsou's reset()
NewApgd == [made |-> TRUE, iter |-> 0, it |-> InitIterand]

\* self._gen = None, line 154
NoGen == [made |-> FALSE, started |-> FALSE, left |-> 0]

\* a generator that has yielded all its iterands
SpentGen(n) == [made |-> TRUE, started |-> TRUE, left |-> 0]

\* a generator of one iterand more
LongGen(n) == [made |-> TRUE, started |-> FALSE, left |-> n + 1]

\* self._apgd.iterates(n=self._max_iter), lines 226 and 236: a generator
\* that has not begun to run
NewGen(n) == [made |-> TRUE, started |-> FALSE, left |-> n]

\* an image estimate left as it was
ResetImageKept(img) == img

\* np.zeros(self._original_size), line 229
ResetImage(img) == ZeroVec(Len(img))

\* self._image_est once ReconstructionAlgorithm.__init__ (line 156) has
\* returned: it calls reset(), which finds self._apgd None
InitImage == ZeroVec(Size(ApgdShape))

ApgdNoRet == [op |-> "none", kind |-> "none", val |-> <<>>]

\* APGD.__init__, lines 150-187
ApgdInit ==
    /\ \E dp \in DiffPenaltyArgs, pp \in ProxPenaltyArgs, a \in AccelerationArgs :
          \E pyc \in PycAccepts(a) : apgd_opts = Construct(dp, pp, a, pyc)
    /\ data = <<>>
    /\ image_est = IF apgd_opts.raised = NoneVal THEN InitImage ELSE <<>>
    /\ apgd = NoApgd
    /\ gen = NoGen
    /\ apgd_ret = ApgdNoRet
    /\ restart = "none"
    /\ upd_count = 0

\* no APGD is built
ApgdIdle ==
    /\ apgd_opts = [arg_diff |-> NoneVal, arg_prox |-> NoneVal, arg_acc |-> NoneVal,
                    pyc_accepts |-> TRUE, raised |-> "idle", diff |-> NoneVal, prox |-> "unset", acc |-> NoneVal]
    /\ data = <<>>
    /\ image_est = <<>>
    /\ apgd = NoApgd
    /\ gen = NoGen
    /\ apgd_ret = ApgdNoRet
    /\ restart = "none"
    /\ upd_count = 0

\* an APGD object exists
Constructed == apgd_opts.raised = NoneVal

\* what set_data raises once self._data is assigned (line 205): reading
\* self._prox_penalty, when it was never assigned, is an AttributeError
\* (line 214); APGD_pyc (line 221) raises for an acceleration it does not
\* take
SetDataRaises ==
    IF apgd_opts.prox = "unset" THEN "AttributeError"
    ELSE IF ~apgd_opts.pyc_accepts THEN "ValueError"
    ELSE NoneVal

\* APGD.set_data, lines 189-226: _image_est is not assigned
SetData(d) ==
    /\ Constructed
    /\ data' = d
    /\ IF SetDataRaises = NoneVal
       THEN /\ apgd' = NewApgd
            /\ gen' = NewGen(MaxIter)
            /\ apgd_ret' = [op |-> "set_data", kind |-> "value", val |-> <<>>]
            /\ restart' = "set_data"
            /\ upd_count' = 0
       ELSE /\ apgd_ret' = [op |-> "set_data", kind |-> SetDataRaises, val |-> <<>>]
            /\ UNCHANGED <<apgd, gen, restart, upd_count>>
    /\ UNCHANGED <<apgd_opts, image_est>>

ApgdSetData == \E d \in Measurements : SetData(d)

\* APGD.reset, lines 228-236
ApgdReset ==
    /\ Constructed
    /\ image_est' = ResetImage(image_est)
    /\ IF apgd.made
       THEN /\ apgd' = NewApgd
            /\ gen' = NewGen(MaxIter)
            /\ restart' = "reset"
       ELSE UNCHANGED <<apgd, gen, restart>>
    /\ apgd_ret' = [op |-> "reset", kind |-> "value", val |-> <<>>]
    /\ upd_count' = 0
    /\ UNCHANGED <<apgd_opts, data>>

\* an image estimate the update does not write
CopyNothing(img, it) == img

\* self._image_est[:] = self._apgd.iterand["iterand"], line 250
CopyIterand(img, it) == it.iterand

\* a next() that takes None for a generator that has ended
NextOfNoneStops(g) == IF g.left = 0 THEN "StopIteration" ELSE "value"

\* next(self._gen), line 249: TypeError when _gen is None (None is not an
\* iterator), StopIteration when the generator has yielded max_iter
\* iterands, else the next iterand
NextOutcome(g) ==
    IF ~g.made THEN "TypeError"
    ELSE IF g.left = 0 THEN "StopIteration"
    ELSE "value"

\* APGD._update, lines 248-250; the generator's first step runs pycsou's
\* reset()
ApgdUpdate ==
    /\ Constructed
    /\ IF NextOutcome(gen) = "TypeError"
       THEN /\ apgd_ret' = [op |-> "update", kind |-> "TypeError", val |-> <<>>]
            /\ UNCHANGED <<apgd, gen, image_est, upd_count>>
       ELSE IF NextOutcome(gen) = "StopIteration"
       THEN /\ apgd_ret' = [op |-> "update", kind |-> "StopIteration", val |-> <<>>]
            /\ gen' = [gen EXCEPT !.started = TRUE]
            /\ apgd' = IF gen.started THEN apgd ELSE NewApgd
            /\ UNCHANGED <<image_est, upd_count>>
       ELSE LET cur == IF gen.started THEN apgd ELSE NewApgd
                nxt == UpdateIterand(cur.it, cur.iter, data, apgd_opts)
            IN /\ apgd' = [made |-> TRUE, iter |-> cur.iter + 1, it |-> nxt]
               /\ gen' = [made |-> TRUE, started |-> TRUE, left |-> gen.left - 1]
               /\ image_est' = CopyIterand(image_est, nxt)
               /\ apgd_ret' = [op |-> "update", kind |-> "value", val |-> <<>>]
               /\ upd_count' = upd_count + 1
    /\ UNCHANGED <<apgd_opts, data, restart>>

\* an image left with its negative entries
ClipNothing(img) == img

\* image[image < 0] = 0, line 254
ClipNegative(img) == [i \in 1..Len(img) |-> IF img[i] < 0 THEN 0 ELSE img[i]]

\* APGD._form_image, lines 252-255: image is a view of _image_est, which
\* the clipping writes through
ApgdFormImage ==
    /\ Constructed
    /\ image_est' = ClipNegative(image_est)
    /\ apgd_ret' = [op |-> "form_image", kind |-> "value",
                    val |-> Reshape(image_est', ApgdShape)]
    /\ UNCHANGED <<apgd_opts, data, apgd, gen, restart, upd_count>>

(***************************************************************************)
(* The closed-form solver (src/lensless/recon/tikhonov.py).  A float is a  *)
(* pair <<n, d>>: the fraction n / d in lowest terms with d > 0, or        *)
(* <<0, 0>> for NaN, <<1, 0>> for +inf, <<-1, 0>> for -inf.  numpy's       *)
(* division by zero gives NaN or inf with a warning; it does not raise.    *)
(***************************************************************************)
Abs(n) == IF n < 0 THEN -n ELSE n

RECURSIVE Gcd(_, _)
Gcd(a, b) == IF b = 0 THEN a ELSE Gcd(b, a % b)

\* the float n / d
Rat(n, d) ==
    IF d = 0 THEN (IF n = 0 THEN <<0, 0>> ELSE IF n > 0 THEN <<1, 0>> ELSE <<-1, 0>>)
    ELSE LET g == Gcd(Abs(n), Abs(d))
             sg == IF d < 0 THEN -1 ELSE 1
         IN <<(sg * n) \div g, (sg * d) \div g>>

QNaN == <<0, 0>>
IsNaN(a) == a = QNaN
IsFinite(a) == a[2] # 0
Sign(a) == IF a[1] > 0 THEN 1 ELSE IF a[1] < 0 THEN -1 ELSE 0

\* a + b
RAdd(a, b) ==
    IF IsNaN(a) \/ IsNaN(b) THEN QNaN
    ELSE IF IsFinite(a) /\ IsFinite(b) THEN Rat(a[1] * b[2] + b[1] * a[2], a[2] * b[2])
    ELSE IF IsFinite(a) THEN b
    ELSE IF IsFinite(b) \/ a = b THEN a
    ELSE QNaN

\* a - b
RSub(a, b) == RAdd(a, <<-b[1], b[2]>>)

\* a * b
RMul(a, b) ==
    IF IsNaN(a) \/ IsNaN(b) THEN QNaN
    ELSE IF IsFinite(a) /\ IsFinite(b) THEN Rat(a[1] * b[1], a[2] * b[2])
    ELSE Rat(Sign(a) * Sign(b), 0)

\* a / b
RDiv(a, b) ==
    IF IsNaN(a) \/ IsNaN(b) THEN QNaN
    ELSE IF IsFinite(b)
         THEN (IF IsFinite(a) THEN Rat(a[1] * b[2], a[2] * b[1])
               ELSE Rat(Sign(a) * (IF b[1] < 0 THEN -1 ELSE 1), 0))
    ELSE IF IsFinite(a) THEN <<0, 1>>
    ELSE QNaN

\* a < b (false when one is NaN)
RLess(a, b) ==
    IF IsNaN(a) \/ IsNaN(b) THEN FALSE
    ELSE IF IsFinite(a) /\ IsFinite(b) THEN a[1] * b[2] < b[1] * a[2]
    ELSE IF IsFinite(a) THEN b[1] > 0
    ELSE IF IsFinite(b) THEN a[1] < 0
    ELSE a[1] < b[1]

\* the entries of a 3-D array
Entries(a) == {a[r][k][ch] : r \in DOMAIN a, k \in DOMAIN a[0], ch \in DOMAIN a[0][0]}

\* ndarray.min() and ndarray.max(): NaN when an entry is NaN
ArrMin(a) ==
    IF QNaN \in Entries(a) THEN QNaN
    ELSE CHOOSE m \in Entries(a) : \A v \in Entries(a) : ~RLess(v, m)

ArrMax(a) ==
    IF QNaN \in Entries(a) THEN QNaN
    ELSE CHOOSE m \in Entries(a) : \A v \in Entries(a) : ~RLess(m, v)

\* height and width of the images, and the pixel values
TkShape == <<1, 2>>
PixelVals == {<<0, 1>>, <<1, 1>>, <<2, 1>>}
BayerVals == {<<0, 1>>, <<1, 1>>}

\* the arrays of shape (h, w, c) with entries in vals
Arrays(h, w, c, vals) == [0..(h - 1) -> [0..(w - 1) -> [0..(c - 1) -> vals]]]

\* lensless.utils.image.resize(img, shape=(2 * height, 2 * width, 3)), as
\* pixel replication
Resize2x(img) ==
    [r \in 0..(2 * Shape3(img)[1] - 1) |-> [k \in 0..(2 * Shape3(img)[2] - 1) |->
        [ch \in 0..2 |-> img[r \div 2][k \div 2][ch]]]]

\* a Bayer array whose two green channels are taken from the red channel
Rgb2BayerRedForGreen(img) ==
    [r \in DOMAIN img |-> [k \in DOMAIN img[r] |->
        [ch \in 0..3 |-> IF ch = 0 THEN img[r][k][2] ELSE img[r][k][0]]]]

\* rgb2bayer, lines 15-31: b = resized[::2, ::2, 2], gb = resized[1::2, ::2, 1],
\* gr = resized[::2, 1::2, 1], r = resized[1::2, 1::2, 0], stacked in this
\* order
Rgb2Bayer(img) ==
    LET resized == Resize2x(img)
    IN [r \in DOMAIN img |-> [k \in DOMAIN img[r] |->
          [ch \in 0..3 |->
              IF ch = 0 THEN resized[2 * r][2 * k][2]
              ELSE IF ch = 1 THEN resized[2 * r + 1][2 * k][1]
              ELSE IF ch = 2 THEN resized[2 * r][2 * k + 1][1]
              ELSE resized[2 * r + 1][2 * k + 1][0]]]]

\* a green that is the first green channel alone
GreenFirst(gb, gr) == gb

\* 0.5 * (X_bayer[:, :, 1] + X_bayer[:, :, 2]), line 40
Green(gb, gr) == RMul(<<1, 2>>, RAdd(gb, gr))

\* (X_rgb - X_rgb.min()) / (X_rgb.max() - X_rgb.min()), line 44
MinMaxNormalize(a) ==
    LET mn == ArrMin(a)
        mx == ArrMax(a)
    IN [r \in DOMAIN a |-> [k \in DOMAIN a[r] |-> [ch \in DOMAIN a[r][k] |->
          RDiv(RSub(a[r][k][ch], mn), RSub(mx, mn))]]]

\* bayer2rgb(X_bayer, normalize), lines 34-45
Bayer2Rgb(X, normalize) ==
    LET rgb == [r \in DOMAIN X |-> [k \in DOMAIN X[r] |->
                  [ch \in 0..2 |->
                      IF ch = 2 THEN X[r][k][0]
                      ELSE IF ch = 1 THEN Green(X[r][k][1], X[r][k][2])
                      ELSE X[r][k][3]]]]
    IN IF normalize THEN MinMaxNormalize(rgb) ELSE rgb

\* np.linalg.svd of the 1 x 1 matrix [[p]]: U = [[sign]], S = [|p|],
\* Vh = [[1]]
Svd1(p) == [U |-> IF p[1] < 0 THEN <<-1, 1>> ELSE <<1, 1>>,
            S |-> <<Abs(p[1]), p[2]>>,
            Vh |-> <<1, 1>>]

\* ndarray.clip(min=0), line 92: NaN stays NaN
ClipMin0(v) == IF IsNaN(v) THEN v ELSE IF RLess(v, <<0, 1>>) THEN <<0, 1>> ELSE v

\* one channel of reconstruction, lines 73-90, for 1 x 1 matrices P = [[p]]
\* and Q = [[q]] and the measurement y of the channel
ReconChannel(y, p, q, lmbd) ==
    LET L == Svd1(p)
        R == Svd1(q)
        \* DL.T @ UL.T @ Yc @ UR @ DR
        num == RMul(RMul(RMul(RMul(L.S, L.U), y), R.U), R.S)
        \* np.outer(singLsq, singRsq) + lmbd
        den == RAdd(RMul(RMul(L.S, L.S), RMul(R.S, R.S)), lmbd)
    IN RMul(RMul(L.Vh, RDiv(num, den)), R.Vh)

\* X_bayer of reconstruction after line 92, for a measurement Y of shape
\* (1, 1, 4)
ReconBayer(Y, p, q, lmbd) ==
    [r \in 0..0 |-> [k \in 0..0 |-> [ch \in 0..3 |->
        ClipMin0(ReconChannel(Y[0][0][ch], p, q, lmbd))]]]

\* the measurements, the entries of P and Q, and the values of lmbd
MeasVals == {<<-1, 1>>, <<0, 1>>, <<1, 1>>}
FactorVals == {<<-1, 1>>, <<0, 1>>, <<2, 1>>}
LmbdVals == {<<0, 1>>, <<1, 1>>}

TkNoRet == [op |-> "none", normalize |-> FALSE, args |-> <<>>]

\* an RGB image to convert, a Bayer array to convert, or nothing yet (the
\* solver's inputs come with the call)
TkInit ==
    /\ \/ /\ tk_img \in Arrays(TkShape[1], TkShape[2], 3, PixelVals)
          /\ tk_bayer = <<>>
       \/ /\ tk_img = <<>>
          /\ tk_bayer \in Arrays(TkShape[1], TkShape[2], 4, BayerVals)
       \/ /\ tk_img = <<>>
          /\ tk_bayer = <<>>
    /\ tk_rgb = <<>>
    /\ tk_ret = TkNoRet

\* nothing of the closed-form solver is used
TkIdle ==
    /\ tk_img = <<>>
    /\ tk_bayer = <<>>
    /\ tk_rgb = <<>>
    /\ tk_ret = [op |-> "idle", normalize |-> FALSE, args |-> <<>>]

\* rgb2bayer(img)
TkRgb2Bayer ==
    /\ tk_img # <<>>
    /\ tk_ret.op = "none"
    /\ tk_bayer' = Rgb2Bayer(tk_img)
    /\ tk_ret' = [op |-> "rgb2bayer", normalize |-> FALSE, args |-> <<>>]
    /\ UNCHANGED <<tk_img, tk_rgb>>

\* bayer2rgb(X_bayer, normalize)
TkBayer2Rgb ==
    /\ tk_bayer # <<>>
    /\ tk_ret.op \in {"none", "rgb2bayer"}
    /\ \E normalize \in BOOLEAN :
          /\ tk_rgb' = Bayer2Rgb(tk_bayer, normalize)
          /\ tk_ret' = [op |-> "bayer2rgb", normalize |-> normalize, args |-> <<>>]
    /\ UNCHANGED <<tk_img, tk_bayer>>

\* reconstruction(Y, P, Q, lmbd), lines 62-94
TkReconstruction ==
    /\ tk_img = <<>>
    /\ tk_bayer = <<>>
    /\ tk_ret.op = "none"
    /\ \E Y \in Arrays(1, 1, 4, MeasVals), p \in FactorVals, q \in FactorVals,
          lmbd \in LmbdVals :
          /\ tk_bayer' = ReconBayer(Y, p, q, lmbd)
          /\ tk_rgb' = Bayer2Rgb(tk_bayer', TRUE)
          /\ tk_ret' = [op |-> "reconstruction", normalize |-> TRUE,
                        args |-> <<Y, p, q, lmbd>>]
    /\ UNCHANGED tk_img

(***************************************************************************)
(* The demo bot (src/scripts/demo/telegram_bot.py).  The handlers are      *)
(* coroutines of one event loop: a handler runs without interruption from  *)
(* one await to the next, and at an await any other handler may run.  An   *)
(* action is one such stretch of a handler; hs[t].pc names the await the   *)
(* handler t is suspended at.  The handlers registered with block=False    *)
(* are started as tasks, so the next message is dispatched while they      *)
(* run; button is registered without it, and no message is dispatched      *)
(* before it has returned.  There is one chat, so one user folder and at   *)
(* most one brightness keyboard.  os.system calls (display, capture,       *)
(* reconstruction) do not await: they run inside the stretch.              *)
(***************************************************************************)
\* the handlers that can be running at the same time
Handlers == {1, 2}

\* the commands that display one of the stored inputs
InputCommands == {"mnist", "thumb", "face"}

\* the commands that reconstruct the last capture with a given algorithm
AlgoCommands == {"fista", "admm", "unrolled", "unet"}

\* the handlers that call check_incoming_message
CheckedKinds == {"photo", "emoji", "psf", "brightness"} \cup InputCommands

\* the handlers application.add_handler registers that use the setup
Kinds == CheckedKinds \cup {"button"} \cup AlgoCommands

\* vals of brightness_command
BrightnessVals == {"20", "40", "60", "80", "100"}

\* a slot in which no handler is running: none was started, or the one
\* that was has returned
NoHandler ==
    [kind |-> "none", pc |-> "done", res |-> "none", passed |-> FALSE,
     during_job |-> FALSE, data |-> "none"]

\* the awaits at which a handler has sent an image to the display, or has
\* started a reconstruction, and has not returned
JobPcs ==
    {"sent_display", "taking", "reconstructing", "sent_recon", "sent_raw", "sent_lensed",
     "psf_displayed", "psf_sent"}

\* handler t is in a display / capture / reconstruct job
InJob(t) == hs[t].pc \in JobPcs

\* a job of another handler is running
OtherJob(t) == \E u \in Handlers \ {t} : InJob(u)

\* the module's globals at start-up (lines 61, 67), an empty user folder
BotInit ==
    /\ BUSY = FALSE
    /\ BRIGHTNESS = "100"
    /\ input_exists = FALSE
    /\ raw_exists = FALSE
    /\ keyboard = FALSE
    /\ hs = [t \in Handlers |-> NoHandler]

\* the bot is not run
BotIdle ==
    /\ BUSY = FALSE
    /\ BRIGHTNESS = "100"
    /\ input_exists = FALSE
    /\ raw_exists = FALSE
    /\ keyboard = FALSE
    /\ hs = <<>>

\* the application starts the handler of an incoming message or of a
\* pressed button of the brightness keyboard
Dispatch(t) ==
    /\ hs[t].pc = "done"
    /\ \A u \in Handlers : hs[u].kind = "button" => hs[u].pc = "done"
    /\ \E k \in Kinds :
          \E d \in (IF k = "button" THEN {"Cancel"} \cup (BrightnessVals \ {BRIGHTNESS})
                    ELSE {"none"}) :
             /\ k = "button" => keyboard
             /\ hs' = [hs EXCEPT ![t] = [NoHandler EXCEPT !.kind = k, !.pc = "start", !.data = d]]
    /\ UNCHANGED <<BUSY, BRIGHTNESS, input_exists, raw_exists, keyboard>>

\* check_incoming_message as called first by photo, emoji, the input
\* commands, psf_command and brightness_command (after its check of the
\* input file), up to the first await: the reply of the rejection, the
\* download of the photo, or the reply after the image was displayed
HandlerStart(t) ==
    /\ hs[t].pc = "start"
    /\ hs[t].kind \in CheckedKinds
    /\ LET rejected(r) == [hs EXCEPT ![t] = [@ EXCEPT !.pc = "reply_res", !.res = r,
                                                     !.during_job = OtherJob(t)]]
           passed(p) == [hs EXCEPT ![t] = [@ EXCEPT !.pc = p, !.passed = TRUE,
                                                   !.during_job = OtherJob(t)]]
       IN IF hs[t].kind = "brightness" /\ ~input_exists
          THEN /\ hs' = rejected("no_image")
               /\ UNCHANGED <<BUSY, input_exists>>
          ELSE IF BUSY
          THEN /\ hs' = rejected("busy")
               /\ UNCHANGED <<BUSY, input_exists>>
          ELSE \E timeout \in BOOLEAN : \E single_emoji \in BOOLEAN :
                  IF timeout
                  THEN /\ hs' = rejected("timeout")
                       /\ UNCHANGED <<BUSY, input_exists>>
                  ELSE IF hs[t].kind = "photo"
                  THEN /\ hs' = [hs EXCEPT ![t] = [@ EXCEPT !.pc = "get_file",
                                                           !.during_job = OtherJob(t)]]
                       /\ UNCHANGED <<BUSY, input_exists>>
                  ELSE IF hs[t].kind = "emoji" /\ ~single_emoji
                  THEN /\ hs' = rejected("single_emoji")
                       /\ UNCHANGED <<BUSY, input_exists>>
                  ELSE /\ BUSY' = TRUE
                       /\ hs' = passed(CASE hs[t].kind = "psf" -> "psf_displayed"
                                         [] hs[t].kind = "brightness" -> "keyboard_reply"
                                         [] OTHER -> "sent_display")
                       /\ input_exists' = (input_exists \/ hs[t].kind \in InputCommands \cup {"emoji"})
    /\ UNCHANGED <<BRIGHTNESS, raw_exists, keyboard>>

\* check_incoming_message for a photo: get_file has returned, the download
\* is awaited
PhotoGetFile(t) ==
    /\ hs[t].pc = "get_file"
    /\ hs' = [hs EXCEPT ![t].pc = "download"]
    /\ UNCHANGED <<BUSY, BRIGHTNESS, input_exists, raw_exists, keyboard>>

\* check_incoming_message for a photo: the photo is in the user folder; a
\* landscape photo is rejected, for a portrait one the reply is awaited
PhotoDownload(t) ==
    /\ hs[t].pc = "download"
    /\ input_exists' = TRUE
    /\ \E portrait \in BOOLEAN :
          hs' = IF portrait THEN [hs EXCEPT ![t].pc = "got_photo"]
                ELSE [hs EXCEPT ![t] = [@ EXCEPT !.pc = "reply_res", !.res = "portrait"]]
    /\ UNCHANGED <<BUSY, BRIGHTNESS, raw_exists, keyboard>>

\* check_incoming_message for a photo sets BUSY and returns None; photo
\* sends the image to the display, or replies that the caption is no
\* supported algorithm
PhotoAccepted(t) ==
    /\ hs[t].pc = "got_photo"
    /\ BUSY' = TRUE
    /\ \E algo_ok \in BOOLEAN :
          hs' = [hs EXCEPT ![t] = [@ EXCEPT !.passed = TRUE,
                                           !.pc = IF algo_ok THEN "sent_display" ELSE "unsupported"]]
    /\ UNCHANGED <<BRIGHTNESS, input_exists, raw_exists, keyboard>>

\* photo after the reply "Unsupported algorithm": BUSY = False
PhotoUnsupported(t) ==
    /\ hs[t].pc = "unsupported"
    /\ BUSY' = FALSE
    /\ hs' = [hs EXCEPT ![t] = NoHandler]
    /\ UNCHANGED <<BRIGHTNESS, input_exists, raw_exists, keyboard>>

\* a handler whose message check_incoming_message (or brightness_command's
\* check of the input file) rejected returns after its reply
ReplyRes(t) ==
    /\ hs[t].pc = "reply_res"
    /\ hs' = [hs EXCEPT ![t] = NoHandler]
    /\ UNCHANGED <<BUSY, BRIGHTNESS, input_exists, raw_exists, keyboard>>

\* take_picture_and_reconstruct is entered; take_picture awaits its reply
TakePicture(t) ==
    /\ hs[t].pc = "sent_display"
    /\ hs' = [hs EXCEPT ![t].pc = "taking"]
    /\ UNCHANGED <<BUSY, BRIGHTNESS, input_exists, raw_exists, keyboard>>

\* take_picture captures; reconstruct finds the raw data and awaits its
\* reply "Reconstructing with ..."
Capture(t) ==
    /\ hs[t].pc = "taking"
    /\ raw_exists' = TRUE
    /\ hs' = [hs EXCEPT ![t].pc = "reconstructing"]
    /\ UNCHANGED <<BUSY, BRIGHTNESS, input_exists, keyboard>>

\* fista, admm, unrolled, unet: reconstruct, up to its first reply
AlgoStart(t) ==
    /\ hs[t].pc = "start"
    /\ hs[t].kind \in AlgoCommands
    /\ hs' = [hs EXCEPT ![t] = [@ EXCEPT !.during_job = OtherJob(t),
                                        !.pc = IF raw_exists THEN "reconstructing" ELSE "no_data"]]
    /\ UNCHANGED <<BUSY, BRIGHTNESS, input_exists, raw_exists, keyboard>>

\* reconstruct runs the reconstruction and awaits the reply with the image
Reconstruct(t) ==
    /\ hs[t].pc = "reconstructing"
    /\ hs' = [hs EXCEPT ![t].pc = "sent_recon"]
    /\ UNCHANGED <<BUSY, BRIGHTNESS, input_exists, raw_exists, keyboard>>

\* reconstruct returns: to the algorithm command, which returns, or to
\* take_picture_and_reconstruct, which awaits the reply with the raw data
ReconstructReturn(t) ==
    /\ hs[t].pc \in {"sent_recon", "no_data"}
    /\ hs' = IF hs[t].kind \in AlgoCommands THEN [hs EXCEPT ![t] = NoHandler]
             ELSE [hs EXCEPT ![t].pc = "sent_raw"]
    /\ UNCHANGED <<BUSY, BRIGHTNESS, input_exists, raw_exists, keyboard>>

\* take_picture_and_reconstruct with a lensed camera configured: the
\* picture of the setup is taken and the reply with it is awaited
SendLensed(t) ==
    /\ hs[t].pc = "sent_raw"
    /\ hs' = [hs EXCEPT ![t].pc = "sent_lensed"]
    /\ UNCHANGED <<BUSY, BRIGHTNESS, input_exists, raw_exists, keyboard>>

\* take_picture_and_reconstruct returns to the handler: BUSY = False
JobEnd(t) ==
    /\ hs[t].pc \in {"sent_raw", "sent_lensed"}
    /\ BUSY' = FALSE
    /\ hs' = [hs EXCEPT ![t] = NoHandler]
    /\ UNCHANGED <<BRIGHTNESS, input_exists, raw_exists, keyboard>>

\* psf_command measures the PSF and awaits the reply with it
PsfCapture(t) ==
    /\ hs[t].pc = "psf_displayed"
    /\ hs' = [hs EXCEPT ![t].pc = "psf_sent"]
    /\ UNCHANGED <<BUSY, BRIGHTNESS, input_exists, raw_exists, keyboard>>

\* psf_command: BUSY = False
PsfEnd(t) ==
    /\ hs[t].pc = "psf_sent"
    /\ BUSY' = FALSE
    /\ hs' = [hs EXCEPT ![t] = NoHandler]
    /\ UNCHANGED <<BRIGHTNESS, input_exists, raw_exists, keyboard>>

\* brightness_command returns after the reply that carries the keyboard
BrightnessReturn(t) ==
    /\ hs[t].pc = "keyboard_reply"
    /\ keyboard' = TRUE
    /\ hs' = [hs EXCEPT ![t] = NoHandler]
    /\ UNCHANGED <<BUSY, BRIGHTNESS, input_exists, raw_exists>>

\* button: BUSY = True, then query.answer() is awaited
ButtonStart(t) ==
    /\ hs[t].pc = "start"
    /\ hs[t].kind = "button"
    /\ BUSY' = TRUE
    /\ hs' = [hs EXCEPT ![t] = [@ EXCEPT !.pc = "answered", !.during_job = OtherJob(t)]]
    /\ UNCHANGED <<BRIGHTNESS, input_exists, raw_exists, keyboard>>

\* button: "Cancel" releases BUSY; a value is assigned to BRIGHTNESS; the
\* edit of the message, which takes the keyboard away, is awaited
ButtonAnswered(t) ==
    /\ hs[t].pc = "answered"
    /\ keyboard' = FALSE
    /\ IF hs[t].data = "Cancel"
       THEN /\ BUSY' = FALSE
            /\ hs' = [hs EXCEPT ![t].pc = "cancelled"]
            /\ UNCHANGED BRIGHTNESS
       ELSE /\ BRIGHTNESS' = hs[t].data
            /\ hs' = [hs EXCEPT ![t].pc = "brightness_set"]
            /\ UNCHANGED BUSY
    /\ UNCHANGED <<input_exists, raw_exists>>

\* button returns after "Cancelled."
ButtonCancelled(t) ==
    /\ hs[t].pc = "cancelled"
    /\ hs' = [hs EXCEPT ![t] = NoHandler]
    /\ UNCHANGED <<BUSY, BRIGHTNESS, input_exists, raw_exists, keyboard>>

\* button sends the image to the display again and awaits the edit
ButtonDisplay(t) ==
    /\ hs[t].pc = "brightness_set"
    /\ hs' = [hs EXCEPT ![t].pc = "sent_display"]
    /\ UNCHANGED <<BUSY, BRIGHTNESS, input_exists, raw_exists, keyboard>>

(***************************************************************************)
(* Specifications.                                                         *)
(***************************************************************************)
SpecConvInit == ConvInit /\ TrainIdle /\ ApgdIdle /\ EvalIdle /\ TkIdle /\ BotIdle

SpecConvNext ==
    \/ ConvCall /\ UNCHANGED <<train_vars, apgd_vars, eval_vars, tk_vars, bot_vars>>
    \/ ConvAdjoint /\ UNCHANGED <<train_vars, apgd_vars, eval_vars, tk_vars, bot_vars>>

SpecConv == SpecConvInit /\ [][SpecConvNext]_vars

SpecTrainInit == TrainerInit /\ ConvIdle /\ ApgdIdle /\ EvalIdle /\ TkIdle /\ BotIdle

SpecTrainNext ==
    \/ EpochStart /\ UNCHANGED <<conv_vars, apgd_vars, eval_vars, tk_vars, bot_vars>>
    \/ Forward /\ UNCHANGED <<conv_vars, apgd_vars, eval_vars, tk_vars, bot_vars>>
    \/ Backward /\ UNCHANGED <<conv_vars, apgd_vars, eval_vars, tk_vars, bot_vars>>
    \/ ClipGrad /\ UNCHANGED <<conv_vars, apgd_vars, eval_vars, tk_vars, bot_vars>>
    \/ NanCheck /\ UNCHANGED <<conv_vars, apgd_vars, eval_vars, tk_vars, bot_vars>>
    \/ OptimizerStep /\ UNCHANGED <<conv_vars, apgd_vars, eval_vars, tk_vars, bot_vars>>
    \/ ZeroGrad /\ UNCHANGED <<conv_vars, apgd_vars, eval_vars, tk_vars, bot_vars>>
    \/ UpdateMask /\ UNCHANGED <<conv_vars, apgd_vars, eval_vars, tk_vars, bot_vars>>
    \/ Bookkeep /\ UNCHANGED <<conv_vars, apgd_vars, eval_vars, tk_vars, bot_vars>>
    \/ EpochEnd /\ UNCHANGED <<conv_vars, apgd_vars, eval_vars, tk_vars, bot_vars>>

SpecTrain == SpecTrainInit /\ [][SpecTrainNext]_vars

SpecAPGDInit == ApgdInit /\ ConvIdle /\ TrainIdle /\ EvalIdle /\ TkIdle /\ BotIdle

SpecAPGDNext ==
    \/ ApgdSetData /\ UNCHANGED <<conv_vars, train_vars, eval_vars, tk_vars, bot_vars>>
    \/ ApgdReset /\ UNCHANGED <<conv_vars, train_vars, eval_vars, tk_vars, bot_vars>>
    \/ ApgdUpdate /\ UNCHANGED <<conv_vars, train_vars, eval_vars, tk_vars, bot_vars>>
    \/ ApgdFormImage /\ UNCHANGED <<conv_vars, train_vars, eval_vars, tk_vars, bot_vars>>

SpecAPGD == SpecAPGDInit /\ [][SpecAPGDNext]_vars

SpecEpochsInit == MetricsInit /\ ConvIdle /\ TrainIdle /\ ApgdIdle /\ TkIdle /\ BotIdle

SpecEpochsNext ==
    \/ OnEpochEnd /\ UNCHANGED <<conv_vars, train_vars, apgd_vars, tk_vars, bot_vars>>

SpecEpochs == SpecEpochsInit /\ [][SpecEpochsNext]_vars

SpecTikhonovInit == TkInit /\ ConvIdle /\ TrainIdle /\ ApgdIdle /\ EvalIdle /\ BotIdle

SpecTikhonovNext ==
    \/ TkRgb2Bayer /\ UNCHANGED <<conv_vars, train_vars, apgd_vars, eval_vars, bot_vars>>
    \/ TkBayer2Rgb /\ UNCHANGED <<conv_vars, train_vars, apgd_vars, eval_vars, bot_vars>>
    \/ TkReconstruction /\ UNCHANGED <<conv_vars, train_vars, apgd_vars, eval_vars, bot_vars>>

SpecTikhonov == SpecTikhonovInit /\ [][SpecTikhonovNext]_vars

SpecBotInit == BotInit /\ ConvIdle /\ TrainIdle /\ ApgdIdle /\ EvalIdle /\ TkIdle

SpecBotNext ==
    \/ \E t \in Handlers : Dispatch(t) /\ UNCHANGED <<conv_vars, train_vars, apgd_vars, eval_vars, tk_vars>>
    \/ \E t \in Handlers : HandlerStart(t) /\ UNCHANGED <<conv_vars, train_vars, apgd_vars, eval_vars, tk_vars>>
    \/ \E t \in Handlers : PhotoGetFile(t) /\ UNCHANGED <<conv_vars, train_vars, apgd_vars, eval_vars, tk_vars>>
    \/ \E t \in Handlers : PhotoDownload(t) /\ UNCHANGED <<conv_vars, train_vars, apgd_vars, eval_vars, tk_vars>>
    \/ \E t \in Handlers : PhotoAccepted(t) /\ UNCHANGED <<conv_vars, train_vars, apgd_vars, eval_vars, tk_vars>>
    \/ \E t \in Handlers : PhotoUnsupported(t) /\ UNCHANGED <<conv_vars, train_vars, apgd_vars, eval_vars, tk_vars>>
    \/ \E t \in Handlers : ReplyRes(t) /\ UNCHANGED <<conv_vars, train_vars, apgd_vars, eval_vars, tk_vars>>
    \/ \E t \in Handlers : TakePicture(t) /\ UNCHANGED <<conv_vars, train_vars, apgd_vars, eval_vars, tk_vars>>
    \/ \E t \in Handlers : Capture(t) /\ UNCHANGED <<conv_vars, train_vars, apgd_vars, eval_vars, tk_vars>>
    \/ \E t \in Handlers : AlgoStart(t) /\ UNCHANGED <<conv_vars, train_vars, apgd_vars, eval_vars, tk_vars>>
    \/ \E t \in Handlers : Reconstruct(t) /\ UNCHANGED <<conv_vars, train_vars, apgd_vars, eval_vars, tk_vars>>
    \/ \E t \in Handlers : ReconstructReturn(t) /\ UNCHANGED <<conv_vars, train_vars, apgd_vars, eval_vars, tk_vars>>
    \/ \E t \in Handlers : SendLensed(t) /\ UNCHANGED <<conv_vars, train_vars, apgd_vars, eval_vars, tk_vars>>
    \/ \E t \in Handlers : JobEnd(t) /\ UNCHANGED <<conv_vars, train_vars, apgd_vars, eval_vars, tk_vars>>
    \/ \E t \in Handlers : PsfCapture(t) /\ UNCHANGED <<conv_vars, train_vars, apgd_vars, eval_vars, tk_vars>>
    \/ \E t \in Handlers : PsfEnd(t) /\ UNCHANGED <<conv_vars, train_vars, apgd_vars, eval_vars, tk_vars>>
    \/ \E t \in Handlers : BrightnessReturn(t) /\ UNCHANGED <<conv_vars, train_vars, apgd_vars, eval_vars, tk_vars>>
    \/ \E t \in Handlers : ButtonStart(t) /\ UNCHANGED <<conv_vars, train_vars, apgd_vars, eval_vars, tk_vars>>
    \/ \E t \in Handlers : ButtonAnswered(t) /\ UNCHANGED <<conv_vars, train_vars, apgd_vars, eval_vars, tk_vars>>
    \/ \E t \in Handlers : ButtonCancelled(t) /\ UNCHANGED <<conv_vars, train_vars, apgd_vars, eval_vars, tk_vars>>
    \/ \E t \in Handlers : ButtonDisplay(t) /\ UNCHANGED <<conv_vars, train_vars, apgd_vars, eval_vars, tk_vars>>

SpecBot == SpecBotInit /\ [][SpecBotNext]_vars

(***************************************************************************)
(* Claims on RealFFTConvolve2D (specification SpecConv).                   *)
(***************************************************************************)
\* the PSF the operator was built from, as a 3-D array
ConvFilter == Crop(Hfreq.sig, filter_shape)

\* sample (m0 + H \div 2 - i0, m1 + W \div 2 - i1) of the PSF, zero outside
\* its H x W support
FilterAt(h, fs, j0, j1, ch) ==
    IF j0 >= 0 /\ j0 < fs[1] /\ j1 >= 0 /\ j1 < fs[2] THEN h[j0][j1][ch] ELSE 0

\* the linear 2-D convolution of x with h, both zero outside their support,
\* on the H x W window centred on the PSF (centre pixel H \div 2, W \div 2)
LinearConvSame(h, x, fs) ==
    [m0 \in 0..(fs[1] - 1) |-> [m1 \in 0..(fs[2] - 1) |-> [ch \in 0..(fs[3] - 1) |->
        Sum0([i0 \in 0..(fs[1] - 1) |->
                Sum0([i1 \in 0..(fs[2] - 1) |->
                        x[i0][i1][ch]
                        * FilterAt(h, fs, m0 + fs[1] \div 2 - i0, m1 + fs[2] \div 2 - i1, ch)],
                     fs[2])],
             fs[1])]]]

\* den * v, elementwise
Scaled(v, den) == [i \in 1..Len(v) |-> den * v[i]]

ConvReturned(op) == conv_ret.op = op /\ conv_ret.kind = "value"

\* C1: adjoint identity.  For every PSF, every x and every y of H*W*C
\* elements, <__call__(x), y> = <x, adjoint(y)> (both sides in units of
\* 1 / OutDen, so the comparison is exact).
C1_AdjointIdentity ==
    ConvReturned("call") =>
        \A y \in VecsOfLen(Size(filter_shape)) :
            Dot(conv_ret.val, y)
            = Dot(conv_ret.arg,
                  AdjointOut(Hfreq,
                             WriteFootprint(padded_data, Reshape(y, filter_shape), filter_shape),
                             filter_shape))

\* C2: __call__(x) is the linear (not circular) convolution of x with the
\* PSF on the H x W window centred on the PSF, for every filter size,
\* whether the padded length is even or odd.
C2_LinearConvolution ==
    ConvReturned("call") =>
        conv_ret.val
        = Scaled(Ravel(LinearConvSame(ConvFilter, Reshape(conv_ret.arg, filter_shape),
                                      filter_shape)),
                 OutDen(filter_shape))

\* C3: __call__ and adjoint are shape-checked against the PSF: an input
\* whose element count differs from H*W*C raises, returns nothing and
\* leaves the scratch buffer as it was; an input of H*W*C elements returns
\* a flat vector of exactly H*W*C elements.
C3_ShapeChecked ==
    [][/\ conv_ret'.n # Size(filter_shape) =>
            /\ conv_ret'.kind = "error"
            /\ conv_ret'.val = <<>>
            /\ padded_data' = padded_data
       /\ conv_ret'.n = Size(filter_shape) =>
            /\ conv_ret'.kind = "value"
            /\ Len(conv_ret'.val) = Size(filter_shape)]_vars

\* C3 witness: a call with a wrong element count has raised on an operator
\* whose buffer holds the data of an earlier call
C3_Witness ==
    /\ conv_ret.kind = "error"
    /\ conv_ret.n # Size(filter_shape)
    /\ padded_data # Zeros3(PaddedShape(filter_shape)[1], PaddedShape(filter_shape)[2],
                            filter_shape[3])

(***************************************************************************)
(* Claims on Trainer.train_epoch.                                          *)
(***************************************************************************)
\* the values of all trainable parameters
Values == [g \in Groups |-> params[g].value]

\* some gradient of the reconstruction or of the mask has a NaN
GradHasNaN == \E g \in Groups : params[g].present /\ params[g].grad = "nan"

\* the calls the current training step has made
TraceHas(a) == \E k \in 1..Len(step_trace) : step_trace[k] = a

\* a training step has come to its end and the next has not begun
StepEnded == pc \in {"forward", "epoch_start"} /\ n_forward > 0

\* C4: with skip_NAN=True a training step whose gradients have a NaN is
\* discarded: from the end of the backward pass on it does not raise, does
\* not call optimizer.step or mask.update_mask, does not re-set the PSF,
\* changes no trainable parameter, and goes on with the next batch.
C4_NaNStepDiscarded ==
    [][(skip_NAN /\ pc \in {"clip", "nan_check"} /\ GradHasNaN) =>
          /\ pc' # "raised"
          /\ Values' = Values
          /\ recon_psf' = recon_psf
          /\ n_opt_step' = n_opt_step
          /\ n_update_mask' = n_update_mask
          /\ pc = "nan_check" => (pc' = "forward" /\ batch' = batch + 1)]_vars

\* C5: the first training step with clip_grad = 1.0 and skip_NAN off, on
\* finite data, with or without a mask: it does not raise, and once it has
\* ended optimizer.step ran exactly once, a parameter has been updated and
\* the running mean of the loss is finite.
C5_OneStepRuns ==
    (clip_grad_norm = "1.0" /\ ~skip_NAN /\ n_forward = 1 /\ loss_v # NaN /\ new_nan = {}) =>
        /\ err = NoneVal
        /\ StepEnded =>
            /\ n_opt_step = 1
            /\ \E g \in Groups : params[g].value = 1
            /\ mean_loss # NaN

\* the calls of a training step that is applied, in order
AppliedStep ==
    IF clip_grad_norm = NoneVal
    THEN <<"forward", "backward", "optimizer.step", "mask.update_mask", "mean_loss">>
    ELSE <<"forward", "backward", "clip", "optimizer.step", "mask.update_mask", "mean_loss">>

\* C6 as stated: with a trainable mask, every training step runs forward,
\* backward, gradient clipping, optimizer.step, mask.update_mask in this
\* order, mask.update_mask once per training step, and the PSF of the
\* reconstruction is the mask's before the next forward pass.
C6_EveryStepUpdatesMask ==
    (use_mask /\ StepEnded) =>
        /\ step_trace = <<"forward", "backward", "clip", "optimizer.step",
                          "mask.update_mask", "mean_loss">>
        /\ n_update_mask = n_forward
        /\ recon_psf = params["mask"].value

\* C6 amended: with a trainable mask, every training step that is not
\* skipped for a NaN gradient runs forward, backward, gradient clipping
\* (when clip_grad is not None), optimizer.step, mask.update_mask in this
\* order; a skipped step calls neither optimizer.step nor
\* mask.update_mask, so mask.update_mask has run exactly once per applied
\* optimizer.step; and the PSF of the reconstruction is the mask's before
\* every forward pass.
C6_AppliedStepUpdatesMask ==
    (use_mask /\ StepEnded) =>
        /\ TraceHas("optimizer.step") => step_trace = AppliedStep
        /\ ~TraceHas("optimizer.step") => ~TraceHas("mask.update_mask")
        /\ n_update_mask = n_opt_step
        /\ recon_psf = params["mask"].value

\* C6 witness: an applied step with a mask has ended; the mask was updated
\* and the reconstruction holds the new PSF
C6_Witness ==
    /\ use_mask
    /\ StepEnded
    /\ step_trace = AppliedStep
    /\ n_update_mask >= 1
    /\ recon_psf >= 1

\* C7: with skip_NAN=False, a NaN in the gradient of any trainable
\* parameter, of the reconstruction as built, of an inserted component or
\* of the mask, makes the backward pass raise, so that optimizer.step is
\* not reached in that step.
C7_NaNGradientRaises ==
    (~skip_NAN /\ new_nan # {}) => (pc = "raised" /\ err = "ValueError")

\* C8: without a mask and with skip_NAN=True, with or without clipping,
\* train_epoch does not read the parameters of the mask (reading them
\* raises AttributeError, the mask being None), and a step with finite
\* gradients applies optimizer.step.
C8_NoMaskNoMaskRead ==
    (~use_mask /\ skip_NAN) =>
        /\ err # "AttributeError"
        /\ (StepEnded /\ ~GradHasNaN) => TraceHas("optimizer.step")

(***************************************************************************)
(* Claims on APGD.                                                         *)
(***************************************************************************)
\* the iterand of a freshly constructed solver after set_data(d) and n updates
RECURSIVE FreshIterand(_, _, _)
FreshIterand(n, d, opts) ==
    IF n = 0 THEN InitIterand
    ELSE The({UpdateIterand(it, n - 1, d, opts) : it \in Once(FreshIterand(n - 1, d, opts))})

\* the image of a freshly constructed solver after set_data(d) and n updates
FreshImage(n, d, opts) ==
    ClipNegative(IF n = 0 THEN InitImage ELSE FreshIterand(n, d, opts).iterand)

\* C9: after set_data, called in any state, the image estimate is all
\* zeros and the iteration count is zero, and the n updates that follow
\* give the image of a freshly constructed solver after set_data and n
\* updates.
C9_SetDataRestarts ==
    restart = "set_data" =>
        /\ upd_count = 0 => (image_est = ZeroVec(Size(ApgdShape)) /\ apgd.iter = 0)
        /\ ClipNegative(image_est) = FreshImage(upd_count, data, apgd_opts)

\* C10: after set_data(d), k updates, reset() and n <= max_iter updates,
\* the image is the one of a freshly constructed solver with the same PSF
\* and options after set_data(d) and n updates.
C10_ResetIdempotent ==
    restart = "reset" =>
        /\ upd_count <= MaxIter
        /\ apgd.iter = upd_count
        /\ ClipNegative(image_est) = FreshImage(upd_count, data, apgd_opts)

\* C10 witness: updates have run after a reset() of a solver with data
C10_Witness ==
    /\ restart = "reset"
    /\ upd_count >= 1
    /\ apgd_ret.op = "update"
    /\ apgd_ret.kind = "value"
    /\ image_est # ZeroVec(Size(ApgdShape))

\* C11: reset() sets the image estimate to zeros and restarts the
\* iteration (count zero, max_iter updates available) and leaves the
\* measurement, the penalties and the acceleration as they are; before any
\* set_data it only zeroes the estimate and the solver stays without data.
C11_ResetFrame ==
    [][apgd_ret'.op = "reset" =>
          /\ image_est' = ZeroVec(Size(ApgdShape))
          /\ data' = data
          /\ apgd_opts' = apgd_opts
          /\ apgd.made =>
                /\ apgd'.made
                /\ apgd'.iter = 0
                /\ gen' = [made |-> TRUE, started |-> FALSE, left |-> MaxIter]
          /\ data = <<>> =>
                /\ data' = <<>>
                /\ ~apgd'.made
                /\ ~gen'.made]_vars

\* C11 witness: reset() has just run on a solver with data
C11_Witness ==
    /\ apgd_ret.op = "reset"
    /\ apgd.made
    /\ data \in Measurements
    /\ upd_count = 0

\* C12: the image _form_image returns has the shape of the PSF given at
\* construction and no negative entry, after any sequence of set_data,
\* update and reset calls and for every proximal penalty.
C12_ImageNonNegative ==
    apgd_ret.op = "form_image" =>
        /\ Shape3(apgd_ret.val) = ApgdShape
        /\ \A r \in DOMAIN apgd_ret.val : \A k \in DOMAIN apgd_ret.val[r] :
              \A ch \in DOMAIN apgd_ret.val[r][k] : apgd_ret.val[r][k][ch] >= 0

\* C12 witness: an image was formed from an iterand with a negative entry
C12_Witness ==
    /\ apgd_ret.op = "form_image"
    /\ upd_count >= 1
    /\ \E i \in 1..Len(apgd.it.iterand) : apgd.it.iterand[i] < 0
    /\ Ravel(apgd_ret.val) = ClipNegative(apgd.it.iterand)

C14_UpdateBeforeSetData ==
    [][(restart = "none" /\ apgd_ret'.op = "update") =>
          /\ apgd_ret'.kind = "TypeError"
          /\ image_est' = image_est
          /\ apgd' = apgd
          /\ gen' = gen
          /\ data' = data
          /\ apgd_opts' = apgd_opts]_vars

\* C14 witness: the update has raised on a solver without data
C14_Witness ==
    /\ apgd_ret.op = "update"
    /\ apgd_ret.kind = "TypeError"
    /\ restart = "none"
    /\ data = <<>>
    /\ ~apgd.made

\* the penalty arguments that APGD does not support: a diff_penalty that is
\* neither None nor "l2", a prox_penalty that is none of None, "l1",
\* "nonneg" (the functionals of the model are the ones that are not
\* differentiable and the ones that cannot be built)
UnsupportedPenalty ==
    \/ apgd_opts.arg_diff \notin {NoneVal, "l2"}
    \/ apgd_opts.arg_prox \notin ProxPenalties

\* C15: constructing APGD with an unsupported penalty raises at
\* construction; the construction never completes with the penalty dropped
\* or left unset.
C15_UnsupportedPenaltyRaises ==
    /\ UnsupportedPenalty => ~Constructed
    /\ Constructed => apgd_opts.prox # "unset"

\* C16: an acceleration other than None, "BT" or "CD" raises in the
\* constructor, before any set_data.
C16_UnknownAccelerationRaises ==
    apgd_opts.arg_acc \notin Accelerations => ~Constructed

(***************************************************************************)
(* Claims on the Trainer's epoch boundary (specification SpecEpochs).      *)
(***************************************************************************)
\* C17: after every return of on_epoch_end, all list-valued entries of
\* Trainer.metrics have the same length, the number of completed epochs,
\* whatever keys the benchmark's result has; the lists only grow by
\* appending and the key set does not change.
C17_MetricListsSameLength ==
    [][epochs_done' # epochs_done =>
          /\ DOMAIN metrics'.lists = DOMAIN metrics.lists
          /\ \A k \in ListKeys :
                /\ Len(metrics'.lists[k]) = epochs_done'
                /\ SubSeq(metrics'.lists[k], 1, Len(metrics.lists[k])) = metrics.lists[k]]_vars

\* a is a better score than b: higher for PSNR and SSIM, lower otherwise
Better(a, b) ==
    IF eval_cfg.metric_for_best_model \in {"PSNR", "SSIM"} THEN a > b ELSE a < b

\* the best of the scores of the epochs so far
BestScore == CHOOSE b \in {epoch_scores[e] : e \in 1..epochs_done} :
                \A e \in 1..epochs_done : ~Better(epoch_scores[e], b)

\* the epoch's score is strictly better than the score of every earlier epoch
Improves(e) == \A j \in 1..(e - 1) : Better(epoch_scores[e], epoch_scores[j])

\* C18: after each on_epoch_end, best_eval_score is the best of the epoch
\* scores so far (the highest for PSNR and SSIM, the lowest otherwise),
\* best_epoch is the first epoch with that score, and the BEST checkpoint
\* was saved in exactly the epochs that strictly improved the score.
C18_BestScoreTracked ==
    epochs_done >= 1 =>
        /\ metrics.best_eval_score = BestScore
        /\ epoch_scores[metrics.best_epoch] = BestScore
        /\ \A j \in 1..(metrics.best_epoch - 1) : epoch_scores[j] # BestScore
        /\ \A e \in 1..epochs_done : ("BEST" \in saved[e]) <=> Improves(e)

\* C19: with metric_for_best_model None, the score evaluate returns is the
\* test loss that matches the training loss: the test MSE for loss "l2",
\* the test MAE for loss "l1", plus lpips * LPIPS_Vgg when lpips is set.
C19_ScoreIsEvalLoss ==
    (eval_ret.kind = "value" /\ eval_cfg.metric_for_best_model = NoneVal) =>
        eval_ret.score =
            (IF eval_cfg.loss = "l2" THEN eval_ret.current_metrics["MSE"]
                                     ELSE eval_ret.current_metrics["MAE"])
            + (IF eval_cfg.lpips # NoneVal
               THEN LpipsWeight(eval_cfg.lpips) * eval_ret.current_metrics["LPIPS_Vgg"]
               ELSE 0)

(***************************************************************************)
(* Claims on the mean loss of Trainer.train_epoch (specification           *)
(* SpecTrain).                                                             *)
(***************************************************************************)
\* the arithmetic mean of the losses of the epoch's applied steps, in
\* units of 1 / MeanScale
AppliedMean ==
    IF applied.sum = NaN THEN NaN ELSE (MeanScale * applied.sum) \div applied.n

\* C20: with skip_NAN, the mean loss train_epoch returns is the arithmetic
\* mean of the losses of the steps that were applied, for every sequence
\* of applied and skipped steps.
C20_MeanOfAppliedSteps ==
    [][(skip_NAN /\ epoch' = epoch + 1 /\ applied.n > 0) =>
          /\ applied.sum # NaN => (MeanScale * applied.sum) % applied.n = 0
          /\ mean_loss = AppliedMean]_vars

\* C20 witness: train_epoch has returned after an applied and a skipped step
C20_Witness ==
    /\ skip_NAN
    /\ pc = "epoch_start"
    /\ epoch >= 1
    /\ applied.n >= 1
    /\ i_cnt - 1 > applied.n
    /\ mean_loss # NaN

(***************************************************************************)
(* Claims on the gradients and the optimizer of the Trainer (specification *)
(* SpecTrain).                                                             *)
(***************************************************************************)
\* the trainable parameter groups of the reconstruction
Trainable == {g \in ReconGroups : params[g].present /\ params[g].requires_grad}

\* the parameter groups the optimizer holds
Optimized == {g \in Groups : params[g].in_opt}

\* C24: at the start of every backward pass the gradients of the optimized
\* parameters are cleared, so a step's gradient comes from its own batch
\* alone, and a step with finite gradients of its own that follows a
\* skipped step is applied.
C24_GradientsCleared ==
    pc = "backward" => \A g \in Optimized : params[g].grad = NoneVal

\* C25: the parameters of a component inserted at its delay epoch or
\* unfrozen at its unfreeze epoch belong to the optimizer of every later
\* optimizer.step: the optimizer holds every trainable parameter of the
\* reconstruction.
C25_OptimizerHoldsTrainable ==
    pc = "opt_step" => Trainable \subseteq Optimized

\* C26: the metrics record written at the end of an epoch is consistent
\* with the epoch: after every on_epoch_end, metrics.json equals the
\* in-memory Trainer.metrics, best_epoch and best_eval_score included.
C26_MetricsFileCurrent ==
    (epochs_done >= 1 /\ eval_ret.kind = "value") => metrics_file = <<metrics>>

(***************************************************************************)
(* Claims on the iteration budget of APGD (specification SpecAPGD).        *)
(***************************************************************************)
\* C27: between two consecutive set_data/reset calls at most max_iter
\* updates succeed: each of the first max_iter updates gives a new
\* estimate, update number max_iter + 1 raises, performs no solver step
\* and leaves the image estimate unchanged, and reset or set_data makes
\* max_iter updates available again.
C27_AtMostMaxIterUpdates ==
    [][/\ upd_count' <= MaxIter
       /\ (restart # "none" /\ apgd_ret'.op = "update" /\ upd_count < MaxIter) =>
             /\ apgd_ret'.kind = "value"
             /\ upd_count' = upd_count + 1
             /\ apgd'.iter = upd_count'
             /\ image_est' = apgd'.it.iterand
       /\ (restart # "none" /\ apgd_ret'.op = "update" /\ upd_count = MaxIter) =>
             /\ apgd_ret'.kind = "StopIteration"
             /\ upd_count' = upd_count
             /\ image_est' = image_est
             /\ apgd'.iter = apgd.iter
             /\ apgd'.it = apgd.it
       /\ (apgd'.made /\ apgd_ret'.op \in {"reset", "set_data"}) =>
             /\ upd_count' = 0
             /\ gen' = [made |-> TRUE, started |-> FALSE, left |-> MaxIter]]_vars

\* C27 witness: update number max_iter + 1 has raised
C27_Witness ==
    /\ apgd_ret.op = "update"
    /\ apgd_ret.kind = "StopIteration"
    /\ upd_count = MaxIter
    /\ apgd.iter = MaxIter
    /\ image_est = apgd.it.iterand

(***************************************************************************)
(* Claims on the scratch buffer of RealFFTConvolve2D (specification        *)
(* SpecConv).                                                              *)
(***************************************************************************)
\* C28: after any sequence of __call__ and adjoint calls the buffer has
\* the padded shape fixed at construction and is zero outside the PSF
\* footprint, and what a call returns is what the operator returns for
\* that argument on a fresh buffer: it depends on the argument and the
\* PSF only.
C28_BufferNeverLeaks ==
    /\ Shape3(padded_data) = <<PaddedShape(filter_shape)[1], PaddedShape(filter_shape)[2],
                               filter_shape[3]>>
    /\ \A r \in DOMAIN padded_data : \A k \in DOMAIN padded_data[r] :
          (r < StartIdx(filter_shape)[1] \/ r >= EndIdx(filter_shape)[1]
             \/ k < StartIdx(filter_shape)[2] \/ k >= EndIdx(filter_shape)[2]) =>
                \A ch \in DOMAIN padded_data[r][k] : padded_data[r][k][ch] = 0
    /\ conv_ret.kind = "value" =>
          /\ padded_data = Pad(Reshape(conv_ret.arg, filter_shape), filter_shape)
          /\ conv_ret.val =
                IF conv_ret.op = "call"
                THEN CallOut(Hfreq, Pad(Reshape(conv_ret.arg, filter_shape), filter_shape),
                             filter_shape)
                ELSE AdjointOut(Hfreq, Pad(Reshape(conv_ret.arg, filter_shape), filter_shape),
                                filter_shape)

\* C28 witness: a call has returned on a buffer that held another, nonzero
\* argument of an earlier call
C28_Witness ==
    /\ conv_ret.kind = "value"
    /\ conv_ret.stale
    /\ \E i \in 1..Len(conv_ret.arg) : conv_ret.arg[i] = 0
    /\ \E i \in 1..Len(conv_ret.val) : conv_ret.val[i] # 0

(***************************************************************************)
(* Claims on the closed-form solver (specification SpecTikhonov).          *)
(***************************************************************************)
\* the pixels of an array
Pixels(a) == {<<r, k>> : r \in DOMAIN a, k \in DOMAIN a[0]}

NotConstant(img) == ArrMin(img) # ArrMax(img)

IllPosed ==
    \/ /\ tk_ret.args[4] = <<0, 1>>
       /\ tk_ret.args[2] = <<0, 1>> \/ tk_ret.args[3] = <<0, 1>>
    \/ ~NotConstant(Bayer2Rgb(tk_bayer, FALSE))

\* C23: reconstruction never returns an image array for an ill-posed
\* problem; it ends with an error.
C23_NoSilentFailure ==
    (tk_ret.op = "reconstruction" /\ IllPosed) => tk_rgb = <<>>

(***************************************************************************)
(* Claims on the demo bot (specification SpecBot).                         *)
(***************************************************************************)
\* the handlers the claim names: photo, emoji, the mnist, thumb, face and
\* psf commands, and the brightness command with its button
NamedKinds == CheckedKinds \cup {"button"}

\* C29: at most one of the named handlers is in a display / capture /
\* reconstruct job at any time, whatever the interleaving of the handlers;
\* and a named handler that started while another named handler's job was
\* running is answered with the busy message (brightness_command possibly
\* with its request for an image) and starts no display, capture or
\* reconstruction.
C29_OneJobAtATime ==
    LET Jobs == {t \in Handlers : InJob(t) /\ hs[t].kind \in NamedKinds}
    IN /\ Cardinality(Jobs) <= 1
       /\ \A t \in Handlers :
             (hs[t].kind \in NamedKinds /\ hs[t].during_job /\ Jobs \ {t} # {}) =>
                (hs[t].res \in {"busy", "no_image"} /\ t \notin Jobs)

\* C30: BUSY is False whenever no handler is running: a handler that passed
\* check_incoming_message has set it back before it returned, and a
\* rejected message has left it as it was.
C30_BusyReleased ==
    (\A t \in Handlers : hs[t].pc = "done") => ~BUSY

====
